---- MODULE Spec2Model ----
(***************************************************************************)
(* Model of the MQTT <-> Modbus RTU gateway: broker and field agent.        *)
(*                                                                         *)
(*   SpecEncoder : the request encoder (ModbusPacketConstructor.parse) as  *)
(*                 a pure function applied to bounded canonical requests.  *)
(*   Spec        : the gateway's message dispatch, the request queue and   *)
(*                 the Client Request life cycle.                          *)
(*   SpecExchange: one request through the gateway, answered by a field    *)
(*                 device from its memory.                                 *)
(*   SpecValidator: validation, construction and formatting of a payload.  *)
(*   SpecAgent   : the field agent's handler and its CRC.                  *)
(*   SpecTraffic : more requests than the queue holds, devices that answer *)
(*                 or refuse; the waits of the dispatch task are fair.     *)
(*   SpecMbnet   : a user client publishing on the mbnet topics.           *)
(*   SpecDecoding: processClientResponse on collected responses.           *)
(*   SpecCoils   : coil writes validated and built into their ADU.         *)
(*   SpecUart    : the inter-symbol timeout of a UART configuration.       *)
(*   SpecLoops   : the byte loops and lengths of the field agent's         *)
(*                 handler, step by step; its steps are fair.              *)
(*   SpecLogin   : MQTT clients logging in and disconnecting.              *)
(***************************************************************************)
EXTENDS Integers, Sequences, FiniteSets, TLC

VARIABLES
    \* ---- encoder specification
    request,          \* canonical request handed to ModbusPacketConstructor.parse
    parsedRequests,   \* its result: the abstract frames
    encPc,            \* "input" before parse ran, "encoded" after
    \* ---- gateway: RequestQueue
    items,            \* RequestQueue.items: the queued Client Requests, head first
    processing,       \* RequestQueue.processing
    dispatch,         \* the triggerQueue task: where it is suspended, its locals
    \* ---- gateway: environment and history
    published,        \* every MQTTBroker.publish so far, in order
    atField,          \* per device, the ADUs sent whose reply has not come back
    requests,         \* every message received on a request topic, in order
    outstanding,      \* the ADUs published and neither answered nor timed out
    uncaught,         \* the handlers that ended with an uncaught exception
    \* ---- one request from validation to its response
    exchange,         \* the request, the field's memory, the Client Request
    \* ---- validator specification
    candidate,        \* the payload and the validator's result for it
    \* ---- field agent specification
    agent,            \* the message handled, the bytes on the wire, the reply
    \* ---- decoding specification
    decoding,         \* a Client Request with its collected responses
    \* ---- login specification
    broker            \* MQTTBroker: the logged-in lists, the attempts under way

encVars == <<request, parsedRequests, encPc>>
gwVars == <<items, processing, dispatch, published, atField, requests,
            outstanding, uncaught>>
auxVars == <<exchange, candidate, agent, decoding, broker>>
vars == <<request, parsedRequests, encPc, items, processing, dispatch,
          published, atField, requests, outstanding, uncaught,
          exchange, candidate, agent, decoding, broker>>

(***************************************************************************)
(* Bounds of the model.                                                    *)
(***************************************************************************)
MaxListLen == 3       \* longest enumerated address list
MaxAddr == 4          \* enumerated addresses are 0..MaxAddr
MaxValue == 1         \* enumerated write values are 0..MaxValue
MaxRequests == 2      \* messages received on request topics in one run
MaxSize == 2          \* queue capacity (maxSize is 256 in queue.js; scaled down)
MaxFrameLen == 3      \* longest ADU handed to the field agent
MaxReplyLen == 2      \* longest frame, before its CRC, read from the UART

(***************************************************************************)
(* Keyword registry.  keywords/modbusKeywords.json is not part of the      *)
(* sources at hand; the tokens are the ones the specification gives        *)
(* (<<terse, verbose>>).                                                   *)
(***************************************************************************)
modbusKeywords ==
    [ ID_PROPERTY          |-> <<"id", "identifier">>,
      FUNCTION_PROPERTY    |-> <<"fn", "function">>,
      DATATYPE_PROPERTY    |-> <<"dt", "datatype">>,
      RANGE_PROPERTY       |-> <<"rg", "range">>,
      LIST_PROPERTY        |-> <<"ls", "list">>,
      VALUES_PROPERTY      |-> <<"dv", "values">>,
      SUBFUNCTION_PROPERTY |-> <<"sf", "subfunction">>,
      PACKET_PROPERTY      |-> <<"pk", "packet">>,
      STATUS               |-> <<"st", "status">>,
      MESSAGE              |-> <<"ms", "message">>,
      FETCHED_DATA         |-> <<"fd", "fetched-data">>,
      ALLOWED_VALUES       |-> <<"av", "allowed-values">>,
      READ                 |-> <<"r", "read">>,
      WRITE                |-> <<"u", "write">>,
      DIAGNOSIS            |-> <<"d", "diagnosis">>,
      MODBUS               |-> <<"m", "modbus">>,
      BOOLEAN_INPUT        |-> <<"bi", "boolean-input">>,
      BOOLEAN_OUTPUT       |-> <<"bo", "boolean-output">>,
      NUMERIC_INPUT        |-> <<"ni", "numeric-input">>,
      NUMERIC_OUTPUT       |-> <<"no", "numeric-output">> ]

\* keywordsMap.js: mb maps every keyword identifier to its terse token.
mb == [k \in DOMAIN modbusKeywords |-> modbusKeywords[k][1]]

\* keywordsMap.js getKey: the token of mbValue in the given format
\* (formatId 0 for 'terse', 1 for anything else).
getKey(mbValue, format) ==
    LET formatId == IF format = "terse" THEN 1 ELSE 2
        key == CHOOSE k \in DOMAIN mb : mb[k] = mbValue
    IN  modbusKeywords[key][formatId]

\* keywords/diagnosisKeywords.json, as far as the specification names it:
\* <<terse, verbose, code, data-fetching>>.  The second entry stands for the
\* subfunctions the table marks as not data-fetching (Modbus diagnostics
\* 0x000A, clear counters, whose reply echoes the request).
diagnosisKeywords ==
    [ RETURN_QUERY_DATA |-> << "rqdt", "return-query-data", 0, TRUE >>,
      CLEAR_COUNTERS    |-> << "clct", "clear-counters", 10, FALSE >> ]

\* JavaScript's undefined and null where a number is expected (a missing
\* array element, a failed lookup): integers that no wire field and no
\* enumerated value can hold.
undefined == 0 - 1000001
nullEntry == 0 - 1000002

\* JavaScript's null where an object is expected: it has none of the keys
\* of a request or response.
null == [k \in {"null"} |-> TRUE]

\* The object obj with obj[key] = value assigned.
Put(obj, key, value) ==
    [k \in DOMAIN obj \cup {key} |-> IF k = key THEN value ELSE obj[k]]

\* obj.hasOwnProperty(key) for a record modelled as a function on its keys.
hasOwnProperty(obj, key) == key \in DOMAIN obj

\* The registry entries whose terse token is the subfunction.
DiagnosisEntries(subfunction) ==
    { k \in DOMAIN diagnosisKeywords : diagnosisKeywords[k][1] = subfunction }

\* diagnosisMap[subfunction]: the code of a terse subfunction token,
\* undefined for anything else.
diagnosisMap(subfunction) ==
    IF DiagnosisEntries(subfunction) = {} THEN undefined
    ELSE diagnosisKeywords[CHOOSE k \in DiagnosisEntries(subfunction) : TRUE][3]

\* dataFetcherSubfunctionMap[subfunction], as a condition: true for a terse
\* token registered as data-fetching.
dataFetcherSubfunctionMap(subfunction) ==
    \E k \in DiagnosisEntries(subfunction) : diagnosisKeywords[k][4]

(***************************************************************************)
(* Modbus encoder (modbusRequestEncoder.js).                               *)
(***************************************************************************)

\* Array.prototype.sort((a, b) => a - b): ascending numeric order, by
\* insertion.
RECURSIVE InsertAsc(_, _)
InsertAsc(sorted, x) ==
    IF sorted = <<>> THEN <<x>>
    ELSE IF x < Head(sorted) THEN <<x>> \o sorted
    ELSE <<Head(sorted)>> \o InsertAsc(Tail(sorted), x)

RECURSIVE SortAsc(_)
SortAsc(list) ==
    IF list = <<>> THEN <<>>
    ELSE InsertAsc(SortAsc(SubSeq(list, 1, Len(list) - 1)), list[Len(list)])

\* The for loop of getRangesFromList over the sorted target (1-based i).
\* target[i + 1] past the end is undefined, undefined - 1 is NaN and the
\* comparison !== is then true: the last run is always closed.
RECURSIVE RangesLoop(_, _, _, _)
RangesLoop(target, i, rangeStart, ranges) ==
    IF i > Len(target) THEN ranges
    ELSE IF i = Len(target) \/ target[i] # target[i + 1] - 1
         THEN RangesLoop(target, i + 1,
                         IF i < Len(target) THEN target[i + 1] ELSE rangeStart,
                         Append(ranges, <<rangeStart, target[i] - rangeStart + 1>>))
         ELSE RangesLoop(target, i + 1, rangeStart, ranges)

\* A plausible slip: coalescing the list as given, without sorting it.
getRangesFromList_unsorted(list) ==
    IF list = <<>> THEN <<>> ELSE RangesLoop(list, 1, list[1], <<>>)

\* IORequestEncoder.getRangesFromList: <<start, count>> of every run.
getRangesFromList(list) ==
    LET target == SortAsc(list)
    IN  IF target = <<>> THEN <<>> ELSE RangesLoop(target, 1, target[1], <<>>)

\* IORequestEncoder.getRanges
getRanges(req) ==
    IF hasOwnProperty(req, mb.RANGE_PROPERTY)
    THEN <<  <<req[mb.RANGE_PROPERTY][1],
               req[mb.RANGE_PROPERTY][2] - req[mb.RANGE_PROPERTY][1] + 1>>  >>
    ELSE IF hasOwnProperty(req, mb.LIST_PROPERTY)
    THEN getRangesFromList(req[mb.LIST_PROPERTY])
    ELSE <<>>

\* IORequestEncoder.determineModbusFunction
determineModbusFunction(req) ==
    LET fn == req[mb.FUNCTION_PROPERTY]
        dt == IF hasOwnProperty(req, mb.DATATYPE_PROPERTY)
              THEN req[mb.DATATYPE_PROPERTY] ELSE "undefined"
    IN  CASE fn = mb.READ  /\ dt = mb.BOOLEAN_OUTPUT -> 1
          [] fn = mb.READ  /\ dt = mb.BOOLEAN_INPUT  -> 2
          [] fn = mb.READ  /\ dt = mb.NUMERIC_OUTPUT -> 3
          [] fn = mb.READ  /\ dt = mb.NUMERIC_INPUT  -> 4
          [] fn = mb.WRITE /\ dt = mb.BOOLEAN_OUTPUT -> 15
          [] fn = mb.WRITE /\ dt = mb.NUMERIC_OUTPUT -> 16
          [] OTHER -> undefined

\* IORequestEncoder.encodeIORequest: one frame [id, function, start, count]
\* per range.
encodeIORequest(req) ==
    LET ranges == getRanges(req)
    IN  [i \in 1..Len(ranges) |->
            <<req[mb.ID_PROPERTY], determineModbusFunction(req),
              ranges[i][1], ranges[i][2]>>]

\* Array.prototype.indexOf, 1-based; 0 stands for "not found" (-1).
indexOf(list, x) ==
    IF \E i \in 1..Len(list) : list[i] = x
    THEN CHOOSE i \in 1..Len(list) :
            list[i] = x /\ \A j \in 1..(i - 1) : list[j] # x
    ELSE 0

\* array[index] for a 1-based index, undefined outside the array.
elementAt(array, index) ==
    IF index \in 1..Len(array) THEN array[index] ELSE undefined

\* A plausible slip: taking the values in the order of dv while walking the
\* sorted runs, instead of looking each address up in ls.
getData_positional(req, ranges) ==
    IF hasOwnProperty(req, mb.RANGE_PROPERTY)
    THEN << req[mb.VALUES_PROPERTY] >>
    ELSE [r \in 1..Len(ranges) |->
            [i \in 1..ranges[r][2] |->
                elementAt(req[mb.VALUES_PROPERTY],
                          indexOf(SortAsc(req[mb.LIST_PROPERTY]),
                                  ranges[r][1] + i - 1))]]

\* WritingRequestEncoder.getData: the values of every range, each looked up
\* at the position its address has in the caller's list.
getData(req, ranges) ==
    IF hasOwnProperty(req, mb.RANGE_PROPERTY)
    THEN << req[mb.VALUES_PROPERTY] >>
    ELSE [r \in 1..Len(ranges) |->
            [i \in 1..ranges[r][2] |->
                elementAt(req[mb.VALUES_PROPERTY],
                          indexOf(req[mb.LIST_PROPERTY], ranges[r][1] + i - 1))]]

\* ReadingRequestEncoder.encode
ReadingRequestEncoder_encode(req) == encodeIORequest(req)

\* WritingRequestEncoder.encode: the frames with their data appended.
WritingRequestEncoder_encode(req) ==
    LET packets == encodeIORequest(req)
        dataArrays == getData(req, getRanges(req))
    IN  [i \in 1..Len(packets) |-> packets[i] \o dataArrays[i]]

\* DiagnosisRequestEncoder.encode
DiagnosisRequestEncoder_encode(req) ==
    << << req[mb.ID_PROPERTY], 8,
          diagnosisMap(req[mb.SUBFUNCTION_PROPERTY]), 0 >> >>

\* RawModbusRequestEncoder.encode
RawModbusRequestEncoder_encode(req) ==
    << << req[mb.ID_PROPERTY] >> \o req[mb.PACKET_PROPERTY] >>

\* ModbusPacketConstructor.parse
parse(req) ==
    CASE req[mb.FUNCTION_PROPERTY] = mb.READ  -> ReadingRequestEncoder_encode(req)
      [] req[mb.FUNCTION_PROPERTY] = mb.WRITE -> WritingRequestEncoder_encode(req)
      [] req[mb.FUNCTION_PROPERTY] = mb.DIAGNOSIS -> DiagnosisRequestEncoder_encode(req)
      [] req[mb.FUNCTION_PROPERTY] = mb.MODBUS -> RawModbusRequestEncoder_encode(req)

(***************************************************************************)
(* Bufferiser (modbusPacketBufferizer.js).  A Buffer is a sequence of      *)
(* bytes.  Buffer.writeUInt8 and Buffer.writeUInt16BE throw when the value *)
(* is above or below the field's range: every toBuffer comes with the      *)
(* condition under which it throws.  They convert the value to a number    *)
(* first: undefined becomes NaN, which is neither above nor below the      *)
(* range, and is stored as 0.                                              *)
(***************************************************************************)
IsUInt8(v) == v = undefined \/ v \in 0..255
IsUInt16(v) == v = undefined \/ v \in 0..65535

\* The number a write stores for a value it accepts.
Stored(v) == IF v = undefined THEN 0 ELSE v

\* The two bytes writeUInt16BE stores, high byte first.
UInt16BE(v) == << v \div 256, v % 256 >>

\* Buffer.alloc(n): n zero bytes.
Zeros(n) == [i \in 1..n |-> 0]

\* Math.ceil(n / 8)
CeilDiv8(n) == (n + 7) \div 8

\* IORequestBufferizer.toBuffer throws on a unit, function, address or count
\* outside its field.
IORequestBufferizer_throws(parsedPacket) ==
    \/ ~IsUInt8(parsedPacket[1])
    \/ ~IsUInt8(parsedPacket[2])
    \/ ~IsUInt16(parsedPacket[3])
    \/ ~IsUInt16(parsedPacket[4])

\* IORequestBufferizer.toBuffer: the 6 header bytes in a zeroed buffer of
\* bufferSize bytes.
IORequestBufferizer_toBuffer(parsedPacket, bufferSize) ==
    << Stored(parsedPacket[1]), Stored(parsedPacket[2]) >>
        \o UInt16BE(Stored(parsedPacket[3])) \o UInt16BE(Stored(parsedPacket[4]))
        \o Zeros(bufferSize - 6)

\* The data of a write frame: parsedPacket.slice(4).
PacketData(parsedPacket) == SubSeq(parsedPacket, 5, Len(parsedPacket))

\* WritingRequestBufferizer.toBuffer: bufferSize.
WritingBufferSize(parsedPacket, content) ==
    IF content[mb.DATATYPE_PROPERTY] = mb.NUMERIC_OUTPUT
    THEN 7 + 2 * (Len(parsedPacket) - 4)
    ELSE 7 + CeilDiv8(Len(parsedPacket) - 4)

\* The forEach of writeDataToBuffer for boolean data (1-based i over data):
\* a bit is set for every non-zero value, a byte is stored after every 8th
\* value and after the last one.
RECURSIVE BooleanBytesLoop(_, _, _, _)
BooleanBytesLoop(data, i, encodedByte, bytes) ==
    IF i > Len(data) THEN bytes
    ELSE LET bit == IF data[i] # 0 THEN 2 ^ ((i - 1) % 8) ELSE 0
             byte == encodedByte + bit
         IN  IF (i - 1) % 8 = 7 \/ i = Len(data)
             THEN BooleanBytesLoop(data, i + 1, 0, Append(bytes, byte))
             ELSE BooleanBytesLoop(data, i + 1, byte, bytes)

\* WritingRequestBufferizer.writeDataToBuffer with the first value of each
\* byte of boolean data in the highest bit.
writeDataToBuffer_msbFirst(parsedPacket, content) ==
    LET data == PacketData(parsedPacket)
    IN  IF content[mb.DATATYPE_PROPERTY] = mb.NUMERIC_OUTPUT
        THEN [k \in 1..(2 * Len(data)) |->
                UInt16BE(Stored(data[(k + 1) \div 2]))[2 - (k % 2)]]
        ELSE [j \in 1..CeilDiv8(Len(data)) |->
                LET byte == BooleanBytesLoop(data, 1, 0, <<>>)[j]
                IN  (byte % 2) * 128 + ((byte \div 2) % 2) * 64
                    + ((byte \div 4) % 2) * 32 + ((byte \div 8) % 2) * 16
                    + ((byte \div 16) % 2) * 8 + ((byte \div 32) % 2) * 4
                    + ((byte \div 64) % 2) * 2 + (byte \div 128)]

\* WritingRequestBufferizer.writeDataToBuffer: the bytes from offset 7 on.
writeDataToBuffer(parsedPacket, content) ==
    LET data == PacketData(parsedPacket)
    IN  IF content[mb.DATATYPE_PROPERTY] = mb.NUMERIC_OUTPUT
        THEN [k \in 1..(2 * Len(data)) |->
                UInt16BE(Stored(data[(k + 1) \div 2]))[2 - (k % 2)]]
        ELSE BooleanBytesLoop(data, 1, 0, <<>>)

WritingRequestBufferizer_throws(parsedPacket, content) ==
    \/ IORequestBufferizer_throws(parsedPacket)
    \/ ~IsUInt8(WritingBufferSize(parsedPacket, content) - 7)
    \/ /\ content[mb.DATATYPE_PROPERTY] = mb.NUMERIC_OUTPUT
       /\ \E k \in 5..Len(parsedPacket) : ~IsUInt16(parsedPacket[k])

\* WritingRequestBufferizer.toBuffer: header, byte count, data.
WritingRequestBufferizer_toBuffer(parsedPacket, content) ==
    SubSeq(IORequestBufferizer_toBuffer(parsedPacket,
                                        WritingBufferSize(parsedPacket, content)), 1, 6)
        \o << WritingBufferSize(parsedPacket, content) - 7 >>
        \o writeDataToBuffer(parsedPacket, content)

\* RawModbusRequestBufferizer.toBuffer throws on a value that is not a byte.
RawModbusRequestBufferizer_throws(parsedPacket) ==
    \E k \in 1..Len(parsedPacket) : ~IsUInt8(parsedPacket[k])

\* RawModbusRequestBufferizer.toBuffer: one byte per value.
RawModbusRequestBufferizer_toBuffer(parsedPacket) ==
    [k \in 1..Len(parsedPacket) |-> Stored(parsedPacket[k])]

\* ModbusPacketBufferizer.toBuffer throws.
toBuffer_throws(parsedPacket, content) ==
    CASE content[mb.FUNCTION_PROPERTY] = mb.READ ->
            IORequestBufferizer_throws(parsedPacket)
      [] content[mb.FUNCTION_PROPERTY] = mb.WRITE ->
            WritingRequestBufferizer_throws(parsedPacket, content)
      [] content[mb.FUNCTION_PROPERTY] = mb.DIAGNOSIS ->
            IORequestBufferizer_throws(parsedPacket)
      [] content[mb.FUNCTION_PROPERTY] = mb.MODBUS ->
            RawModbusRequestBufferizer_throws(parsedPacket)

\* ModbusPacketBufferizer.toBuffer
toBuffer(parsedPacket, content) ==
    CASE content[mb.FUNCTION_PROPERTY] = mb.READ ->
            IORequestBufferizer_toBuffer(parsedPacket, 6)
      [] content[mb.FUNCTION_PROPERTY] = mb.WRITE ->
            WritingRequestBufferizer_toBuffer(parsedPacket, content)
      [] content[mb.FUNCTION_PROPERTY] = mb.DIAGNOSIS ->
            IORequestBufferizer_toBuffer(parsedPacket, 6)
      [] content[mb.FUNCTION_PROPERTY] = mb.MODBUS ->
            RawModbusRequestBufferizer_toBuffer(parsedPacket)

(***************************************************************************)
(* Payload conversion of the broker adapter.  MQTTBroker.onMessage hands   *)
(* packet.payload.toString() to the gateway, which rebuilds a Buffer with  *)
(* Buffer.from(payload): the bytes are decoded as UTF-8 and encoded again. *)
(* Well-formed sequences come back unchanged; every maximal ill-formed     *)
(* part becomes U+FFFD, i.e. the three bytes EF BF BD.                     *)
(***************************************************************************)
ReplacementBytes == <<239, 191, 189>>

\* Number of continuation bytes the lead byte b announces (0: not a lead).
Utf8Needed(b) ==
    IF b \in 194..223 THEN 1
    ELSE IF b \in 224..239 THEN 2
    ELSE IF b \in 240..244 THEN 3
    ELSE 0

\* Range allowed for the first continuation byte after lead byte b.
Utf8Lower(b) == IF b = 224 THEN 160 ELSE IF b = 240 THEN 144 ELSE 128
Utf8Upper(b) == IF b = 237 THEN 159 ELSE IF b = 244 THEN 143 ELSE 191

\* The decoder's loop.  pending holds the bytes of the sequence being read,
\* needed the continuation bytes still expected, lower..upper the range the
\* next one must lie in.
RECURSIVE Utf8Loop(_, _, _, _, _, _, _)
Utf8Loop(bytes, i, pending, needed, lower, upper, out) ==
    IF i > Len(bytes)
    THEN IF needed > 0 THEN out \o ReplacementBytes ELSE out
    ELSE LET b == bytes[i]
         IN  IF needed = 0
             THEN IF b <= 127
                  THEN Utf8Loop(bytes, i + 1, <<>>, 0, 128, 191, Append(out, b))
                  ELSE IF Utf8Needed(b) > 0
                  THEN Utf8Loop(bytes, i + 1, <<b>>, Utf8Needed(b),
                                Utf8Lower(b), Utf8Upper(b), out)
                  ELSE Utf8Loop(bytes, i + 1, <<>>, 0, 128, 191,
                                out \o ReplacementBytes)
             ELSE IF b \notin lower..upper
                  THEN \* ill-formed: replace what was read, read b again
                       Utf8Loop(bytes, i, <<>>, 0, 128, 191, out \o ReplacementBytes)
                  ELSE IF needed = 1
                  THEN Utf8Loop(bytes, i + 1, <<>>, 0, 128, 191,
                                out \o Append(pending, b))
                  ELSE Utf8Loop(bytes, i + 1, Append(pending, b), needed - 1,
                                128, 191, out)

\* Buffer.from(buffer.toString()): what the gateway sees of a binary payload.
Utf8RoundTrip(bytes) == Utf8Loop(bytes, 1, <<>>, 0, 128, 191, <<>>)

(***************************************************************************)
(* Debufferiser (modbusResponseDebufferizer.js).  Buffer.readUInt8 and     *)
(* Buffer.readUInt16BE throw a RangeError when they read past the end.     *)
(***************************************************************************)

\* ModbusResponseDebufferizer.nullBuffer: "Null"
nullBuffer == <<78, 117, 108, 108>>

\* buffer.readUInt16BE(offset), offset 0-based, for a read inside the buffer.
readUInt16BE(buffer, offset) == buffer[offset + 1] * 256 + buffer[offset + 2]

\* buffer.slice(start): the bytes from the 0-based start on.
slice(buffer, start) ==
    IF start >= Len(buffer) THEN <<>> ELSE SubSeq(buffer, start + 1, Len(buffer))

\* WritingResponseDebufferizer.toArray reads bytes 0..5.
WritingResponseDebufferizer_throws(response) == Len(response) < 6

\* WritingResponseDebufferizer.toArray: [id, function, offset, size]
WritingResponseDebufferizer_toArray(response) ==
    << response[1], response[2], readUInt16BE(response, 2), readUInt16BE(response, 4) >>

\* ReadingResponseDebufferizer.parseFetchedNumericData throws when the data
\* is shorter than two bytes per register.
parseFetchedNumericData_throws(response, targetLength) ==
    targetLength >= 1 /\ Len(response) < 2 * targetLength

\* ReadingResponseDebufferizer.parseFetchedNumericData
parseFetchedNumericData(response, targetLength) ==
    [k \in 1..targetLength |-> readUInt16BE(response, 2 * (k - 1))]

\* The loops of parseFetchedBooleanData: the break leaves the loop over the
\* bits of one byte only, the loop over the bytes goes on.
RECURSIVE BooleanBitsLoop(_, _, _, _, _)
BooleanBitsLoop(response, i, bit, targetLength, fetchedData) ==
    IF i > Len(response) THEN fetchedData
    ELSE IF bit > 7 THEN BooleanBitsLoop(response, i + 1, 0, targetLength, fetchedData)
    ELSE LET pushed == Append(fetchedData, (response[i] \div (2 ^ bit)) % 2)
         IN  IF Len(pushed) = targetLength
             THEN BooleanBitsLoop(response, i + 1, 0, targetLength, pushed)
             ELSE BooleanBitsLoop(response, i, bit + 1, targetLength, pushed)

\* The bits of the first byte taken from the highest down.
parseFetchedBooleanData_msbFirst(response, targetLength) ==
    IF response = <<>> THEN <<>>
    ELSE [k \in 1..(IF targetLength < 8 THEN targetLength ELSE 8) |->
            (response[1] \div (2 ^ (8 - k))) % 2]

\* ReadingResponseDebufferizer.parseFetchedBooleanData
parseFetchedBooleanData(response, targetLength) ==
    BooleanBitsLoop(response, 1, 0, targetLength, <<>>)

\* ReadingResponseDebufferizer.toArray reads bytes 0 and 1 outside its try.
ReadingResponseDebufferizer_throws(response) == Len(response) < 2

\* ReadingResponseDebufferizer.toArray: [id, function, ...data], or
\* [id, function, null] when the data parser threw.
ReadingResponseDebufferizer_toArray(response, targetLength, dataType) ==
    LET data == slice(response, 3)
    IN  << response[1], response[2] >> \o
        ( IF dataType \in {mb.NUMERIC_INPUT, mb.NUMERIC_OUTPUT}
          THEN IF parseFetchedNumericData_throws(data, targetLength)
               THEN << nullEntry >>
               ELSE parseFetchedNumericData(data, targetLength)
          ELSE parseFetchedBooleanData(data, targetLength) )

\* DiagnosisResponseDebufferizer.toArray throws when a reader passes the end
\* of the response: four bytes are read, six for a data-fetching subfunction.
DiagnosisResponseDebufferizer_throws(response, req) ==
    \/ Len(response) < 4
    \/ /\ hasOwnProperty(req, mb.SUBFUNCTION_PROPERTY)
       /\ dataFetcherSubfunctionMap(req[mb.SUBFUNCTION_PROPERTY])
       /\ Len(response) < 6

\* DiagnosisResponseDebufferizer.toArray: [id, function, subfunction] and,
\* for a data-fetching subfunction, the 16-bit datum.
DiagnosisResponseDebufferizer_toArray(response, req) ==
    << response[1], response[2], readUInt16BE(response, 2) >> \o
    ( IF /\ hasOwnProperty(req, mb.SUBFUNCTION_PROPERTY)
         /\ dataFetcherSubfunctionMap(req[mb.SUBFUNCTION_PROPERTY])
      THEN << readUInt16BE(response, 4) >>
      ELSE <<>> )

\* RawModbusResponseDebufferizer.toArray: the bytes of the response.
RawModbusResponseDebufferizer_toArray(response) == response

\* ModbusResponseDebufferizer.toArray throws: a reader past the end of a
\* response, or, for a read, a response beyond the last frame
\* (parsedRequests[index] is undefined there).
toArray_throws(clientRequest) ==
    \E index \in 1..Len(clientRequest.bufferResponses) :
        LET response == clientRequest.bufferResponses[index].bytes
        IN  CASE clientRequest.content[mb.FUNCTION_PROPERTY] = mb.WRITE ->
                    WritingResponseDebufferizer_throws(response)
              [] clientRequest.content[mb.FUNCTION_PROPERTY] = mb.READ ->
                    \/ index > Len(clientRequest.parsedRequests)
                    \/ ReadingResponseDebufferizer_throws(response)
              [] clientRequest.content[mb.FUNCTION_PROPERTY] = mb.DIAGNOSIS ->
                    DiagnosisResponseDebufferizer_throws(response, clientRequest.content)
              [] clientRequest.content[mb.FUNCTION_PROPERTY] = mb.MODBUS -> FALSE

\* ModbusResponseDebufferizer.toArray: one decoded array per response.
toArray(clientRequest) ==
    [index \in 1..Len(clientRequest.bufferResponses) |->
        LET response == clientRequest.bufferResponses[index].bytes
        IN  CASE clientRequest.content[mb.FUNCTION_PROPERTY] = mb.WRITE ->
                    WritingResponseDebufferizer_toArray(response)
              [] clientRequest.content[mb.FUNCTION_PROPERTY] = mb.READ ->
                    ReadingResponseDebufferizer_toArray(
                        response,
                        clientRequest.parsedRequests[index][4],
                        clientRequest.content[mb.DATATYPE_PROPERTY])
              [] clientRequest.content[mb.FUNCTION_PROPERTY] = mb.DIAGNOSIS ->
                    DiagnosisResponseDebufferizer_toArray(response, clientRequest.content)
              [] clientRequest.content[mb.FUNCTION_PROPERTY] = mb.MODBUS ->
                    RawModbusResponseDebufferizer_toArray(response)]

(***************************************************************************)
(* Decoder (modbusResponseDecoder.js).                                     *)
(***************************************************************************)

\* validatorTargetRange of the decoder of the request's family (1-based).
validatorTargetRange(content) ==
    CASE content[mb.FUNCTION_PROPERTY] = mb.WRITE -> 1..4
      [] content[mb.FUNCTION_PROPERTY] = mb.READ  -> 1..2
      [] content[mb.FUNCTION_PROPERTY] = mb.DIAGNOSIS -> 1..4
      [] content[mb.FUNCTION_PROPERTY] = mb.MODBUS -> 1..2

\* Frame i and response i agree on every compared position.
HeaderMatches(content, mbRequests, mbResponses, i) ==
    \A j \in validatorTargetRange(content) :
        elementAt(mbRequests[i], j) = elementAt(mbResponses[i], j)

\* ModbusResponseDecoder.validate throws when it reaches a frame that has no
\* response (mbResponses[i] is undefined).
validate_throws(content, mbRequests, mbResponses) ==
    \E i \in 1..Len(mbRequests) :
        /\ i > Len(mbResponses)
        /\ \A k \in 1..(i - 1) : HeaderMatches(content, mbRequests, mbResponses, k)

\* ModbusResponseDecoder.validate
validate(content, mbRequests, mbResponses) ==
    \A i \in 1..Len(mbRequests) : HeaderMatches(content, mbRequests, mbResponses, i)

\* The [address, value] pairs ReadingResponseDecoder.decode collects, frame
\* after frame.
RECURSIVE FetchedPairs(_, _, _)
FetchedPairs(mbRequests, mbResponses, index) ==
    IF index > Len(mbRequests) THEN <<>>
    ELSE [i \in 1..mbRequests[index][4] |->
            << mbRequests[index][3] + i - 1, elementAt(mbResponses[index], 2 + i) >>]
         \o FetchedPairs(mbRequests, mbResponses, index + 1)

\* fetchedData.sort((a, b) => a[0] - b[0]): by address, by insertion.
RECURSIVE InsertPair(_, _)
InsertPair(sorted, x) ==
    IF sorted = <<>> THEN <<x>>
    ELSE IF x[1] < Head(sorted)[1] THEN <<x>> \o sorted
    ELSE <<Head(sorted)>> \o InsertPair(Tail(sorted), x)

RECURSIVE SortPairs(_)
SortPairs(pairs) ==
    IF pairs = <<>> THEN <<>>
    ELSE InsertPair(SortPairs(SubSeq(pairs, 1, Len(pairs) - 1)), pairs[Len(pairs)])

\* fetchedData[fetchedData.findIndex(subarray => subarray[0] === target)][1]
ValueOfAddress(pairs, target) ==
    pairs[CHOOSE k \in 1..Len(pairs) :
            pairs[k][1] = target /\ \A j \in 1..(k - 1) : pairs[j][1] # target][2]

\* ReadingResponseDecoder.decode: the request with its fetched data, in
\* address order for a range, in the order of the caller's list for a list.
ReadingResponseDecoder_decode(clientRequest, mbResponses) ==
    LET fetchedData == FetchedPairs(clientRequest.parsedRequests, mbResponses, 1)
        content == clientRequest.content
    IN  Put(content, mb.FETCHED_DATA,
            IF hasOwnProperty(content, mb.RANGE_PROPERTY)
            THEN [k \in 1..Len(fetchedData) |-> SortPairs(fetchedData)[k][2]]
            ELSE [k \in 1..Len(content[mb.LIST_PROPERTY]) |->
                    ValueOfAddress(fetchedData, content[mb.LIST_PROPERTY][k])])

\* WritingResponseDecoder.decode
WritingResponseDecoder_decode(clientRequest, mbResponses) == clientRequest.content

\* DiagnosisResponseDecoder.decode: the request, with the fourth entry of
\* the first response as its fetched data when that response has four.
DiagnosisResponseDecoder_decode(clientRequest, mbResponses) ==
    IF Len(mbResponses[1]) = 4
    THEN Put(clientRequest.content, mb.FETCHED_DATA, << mbResponses[1][4] >>)
    ELSE clientRequest.content

\* RawModbusResponseDecoder.decode: the first response as fetched data.
RawModbusResponseDecoder_decode(clientRequest, mbResponses) ==
    Put(clientRequest.content, mb.FETCHED_DATA, mbResponses[1])

\* ModbusResponseDecoder.createClientResponse
createClientResponse(clientRequest, mbResponses) ==
    IF validate(clientRequest.content, clientRequest.parsedRequests, mbResponses)
    THEN Put(CASE clientRequest.content[mb.FUNCTION_PROPERTY] = mb.READ ->
                    ReadingResponseDecoder_decode(clientRequest, mbResponses)
               [] clientRequest.content[mb.FUNCTION_PROPERTY] = mb.WRITE ->
                    WritingResponseDecoder_decode(clientRequest, mbResponses)
               [] clientRequest.content[mb.FUNCTION_PROPERTY] = mb.DIAGNOSIS ->
                    DiagnosisResponseDecoder_decode(clientRequest, mbResponses)
               [] clientRequest.content[mb.FUNCTION_PROPERTY] = mb.MODBUS ->
                    RawModbusResponseDecoder_decode(clientRequest, mbResponses),
             mb.STATUS, TRUE)
    ELSE Put(clientRequest.content, mb.STATUS, FALSE)

(***************************************************************************)
(* Request formatter (requestFormatter.js).                                *)
(***************************************************************************)

\* The eight request fields: Object.entries(modbusKeywords).slice(0, 8).
unifiedFormat ==
    << "ID_PROPERTY", "FUNCTION_PROPERTY", "DATATYPE_PROPERTY", "RANGE_PROPERTY",
       "LIST_PROPERTY", "VALUES_PROPERTY", "SUBFUNCTION_PROPERTY", "PACKET_PROPERTY" >>

\* The request fields whose values are strings.
StringProperties == {"FUNCTION_PROPERTY", "DATATYPE_PROPERTY", "SUBFUNCTION_PROPERTY"}

\* JavaScript truthiness of the value of a request field: a number other
\* than 0, a string other than the empty one, any array.
Truthy(name, value) ==
    IF name = "ID_PROPERTY" THEN value # 0
    ELSE IF name \in StringProperties THEN value # ""
    ELSE TRUE

\* modbusKeywordsMap[value] || modbusDiagnosisMap[value] || value: the terse
\* token of a verbose token of either registry, any other string unchanged.
TerseToken(value) ==
    IF \E k \in DOMAIN modbusKeywords : modbusKeywords[k][2] = value
    THEN modbusKeywords[CHOOSE k \in DOMAIN modbusKeywords :
                            modbusKeywords[k][2] = value][1]
    ELSE IF \E k \in DOMAIN diagnosisKeywords : diagnosisKeywords[k][2] = value
    THEN diagnosisKeywords[CHOOSE k \in DOMAIN diagnosisKeywords :
                            diagnosisKeywords[k][2] = value][1]
    ELSE value

\* RequestFormatter.parse: the fields of the request that hold a truthy
\* value, under the terse keys, with the enumerated tokens in terse form.
requestFormatter_parse(data, format) ==
    LET index == IF format = "verbose" THEN 2 ELSE 1
        present == { k \in 1..Len(unifiedFormat) :
                        /\ hasOwnProperty(data, modbusKeywords[unifiedFormat[k]][index])
                        /\ Truthy(unifiedFormat[k],
                                  data[modbusKeywords[unifiedFormat[k]][index]]) }
    IN  [key \in { mb[unifiedFormat[k]] : k \in present } |->
            LET name == CHOOSE n \in DOMAIN mb : mb[n] = key
                value == data[modbusKeywords[name][index]]
            IN  IF name \in StringProperties THEN TerseToken(value) ELSE value]

\* Every key under its name in the caller's format, always with the value
\* of newObject.
correctFormat_newValue(newObject, oldObject, format) ==
    [originalKey \in { getKey(key, format) : key \in DOMAIN newObject } |->
        newObject[CHOOSE k \in DOMAIN newObject : getKey(k, format) = originalKey]]

\* RequestFormatter.correctFormat: every key of newObject under its name in
\* the caller's format, with oldObject[originalKey] || newObject[key]: the
\* caller's own value where the request has a truthy one, the new value
\* otherwise.
correctFormat(newObject, oldObject, format) ==
    [originalKey \in { getKey(key, format) : key \in DOMAIN newObject } |->
        LET key == CHOOSE k \in DOMAIN newObject : getKey(k, format) = originalKey
            name == CHOOSE n \in DOMAIN mb : mb[n] = key
        IN  IF /\ hasOwnProperty(oldObject, originalKey)
               /\ Truthy(name, oldObject[originalKey])
            THEN oldObject[originalKey]
            ELSE newObject[key]]

(***************************************************************************)
(* Request validator (requestValidator.js with the schema template).       *)
(* Payloads are typed as the schema asks (integers, strings, arrays of     *)
(* integers): the model covers the value, presence and cross-field rules,  *)
(* not the schema's type errors.  Errors are listed in the order the       *)
(* schema compiler evaluates the keywords: required, additionalProperties, *)
(* the properties, then the four request keywords.                         *)
(***************************************************************************)

\* Schema bounds of the unit id.
MinUnitId == 1
MaxUnitId == 247

\* The token of a keyword in a format.
Token(name, format) == modbusKeywords[name][IF format = "terse" THEN 1 ELSE 2]

\* An error of the compiled schema: keyword, the message built from the
\* instance path and the text, and the allowed values of an enum.
SchemaError(keyword, msg, allowedValues) ==
    [keyword |-> keyword, msg |-> msg, allowedValues |-> allowedValues]

\* [error] if the condition holds, nothing otherwise.
ErrorIf(condition, error) == IF condition THEN << error >> ELSE <<>>

\* The errors of an enumerated string property.
EnumErrors(data, format, name, allowed) ==
    LET key == Token(name, format)
    IN  ErrorIf(hasOwnProperty(data, key) /\ \A k \in 1..Len(allowed) : data[key] # allowed[k],
                SchemaError("enum", key \o " must be equal to one of the allowed values",
                            allowed))

\* uniqueItems
HasDuplicates(array) == \E i, j \in 1..Len(array) : i # j /\ array[i] = array[j]

\* ascendingItems: array[index - 1] <= value for every index
IsAscending(array) == \A i \in 2..Len(array) : array[i - 1] <= array[i]

\* The errors of the properties, in the order of the template.
PropertyErrors(data, format) ==
    LET id == Token("ID_PROPERTY", format)
        rg == Token("RANGE_PROPERTY", format)
        ls == Token("LIST_PROPERTY", format)
        dv == Token("VALUES_PROPERTY", format)
        pk == Token("PACKET_PROPERTY", format)
        has(k) == hasOwnProperty(data, k)
    IN  ErrorIf(has(id) /\ data[id] < MinUnitId,
                SchemaError("minimum", id \o " must be >= 1", <<>>))
        \o ErrorIf(has(id) /\ data[id] > MaxUnitId,
                SchemaError("maximum", id \o " must be <= 247", <<>>))
        \o EnumErrors(data, format, "FUNCTION_PROPERTY",
                << Token("WRITE", format), Token("READ", format),
                   Token("DIAGNOSIS", format), Token("MODBUS", format) >>)
        \o EnumErrors(data, format, "DATATYPE_PROPERTY",
                << Token("BOOLEAN_INPUT", format), Token("BOOLEAN_OUTPUT", format),
                   Token("NUMERIC_INPUT", format), Token("NUMERIC_OUTPUT", format) >>)
        \o ErrorIf(has(rg) /\ Len(data[rg]) > 2,
                SchemaError("maxItems", rg \o " must NOT have more than 2 items", <<>>))
        \o ErrorIf(has(rg) /\ Len(data[rg]) < 2,
                SchemaError("minItems", rg \o " must NOT have fewer than 2 items", <<>>))
        \o ErrorIf(has(rg) /\ HasDuplicates(data[rg]),
                SchemaError("uniqueItems", rg \o " must NOT have duplicate items", <<>>))
        \o ErrorIf(has(rg) /\ ~IsAscending(data[rg]),
                SchemaError("ascendingItems", "Array items are not in ascending order", <<>>))
        \o ErrorIf(has(ls) /\ Len(data[ls]) < 1,
                SchemaError("minItems", ls \o " must NOT have fewer than 1 items", <<>>))
        \o ErrorIf(has(ls) /\ HasDuplicates(data[ls]),
                SchemaError("uniqueItems", ls \o " must NOT have duplicate items", <<>>))
        \o ErrorIf(has(dv) /\ Len(data[dv]) < 1,
                SchemaError("minItems", dv \o " must NOT have fewer than 1 items", <<>>))
        \o EnumErrors(data, format, "SUBFUNCTION_PROPERTY",
                << diagnosisKeywords.RETURN_QUERY_DATA[IF format = "terse" THEN 1 ELSE 2],
                   diagnosisKeywords.CLEAR_COUNTERS[IF format = "terse" THEN 1 ELSE 2] >>)
        \o ErrorIf(has(pk) /\ \E k \in 1..Len(data[pk]) : data[pk][k] < 0,
                SchemaError("minimum", pk \o " must be >= 0", <<>>))
        \o ErrorIf(has(pk) /\ \E k \in 1..Len(data[pk]) : data[pk][k] > 255,
                SchemaError("maximum", pk \o " must be <= 255", <<>>))

\* The keyword validateReadRequest.
validateReadRequest(data, format) ==
    LET has(name) == hasOwnProperty(data, Token(name, format))
    IN  IF has("FUNCTION_PROPERTY")
           /\ data[Token("FUNCTION_PROPERTY", format)] = Token("READ", format)
        THEN ErrorIf(has("LIST_PROPERTY") = has("RANGE_PROPERTY"),
                SchemaError("validateReadRequest",
                    "Either list or range must be present, but not both or neither", <<>>))
             \o ErrorIf(has("VALUES_PROPERTY") \/ has("SUBFUNCTION_PROPERTY")
                            \/ has("PACKET_PROPERTY"),
                SchemaError("validateReadRequest",
                    "values property should not be present", <<>>))
        ELSE <<>>

\* The chain of validateWriteRequest without its comparison of the sizes of
\* values and list.
validateWriteRequest_anyListSize(data, format) ==
    LET has(name) == hasOwnProperty(data, Token(name, format))
        val(name) == data[Token(name, format)]
        err(msg) == << SchemaError("validateWriteRequest", msg, <<>>) >>
    IN  IF has("FUNCTION_PROPERTY") /\ val("FUNCTION_PROPERTY") = Token("WRITE", format)
        THEN IF has("LIST_PROPERTY") = has("RANGE_PROPERTY")
             THEN err("Either list or range must be present, but not both or neither")
             ELSE IF ~has("VALUES_PROPERTY")
             THEN err("values property must be present")
             ELSE IF ~has("DATATYPE_PROPERTY")
                     \/ ( val("DATATYPE_PROPERTY") # Token("BOOLEAN_OUTPUT", format)
                          /\ val("DATATYPE_PROPERTY") # Token("NUMERIC_OUTPUT", format) )
             THEN err("datatype must be either boolean-output or numeric-output")
             ELSE IF has("RANGE_PROPERTY") /\ Len(val("RANGE_PROPERTY")) = 2
                     /\ val("RANGE_PROPERTY")[2] - val("RANGE_PROPERTY")[1] + 1
                            # Len(val("VALUES_PROPERTY"))
             THEN err("Size of values does not match range")
             ELSE IF has("SUBFUNCTION_PROPERTY") \/ has("PACKET_PROPERTY")
             THEN err("subfunction property should not be present")
             ELSE <<>>
        ELSE <<>>

\* The keyword validateWriteRequest: the first failing rule of its chain.
validateWriteRequest(data, format) ==
    LET has(name) == hasOwnProperty(data, Token(name, format))
        val(name) == data[Token(name, format)]
        err(msg) == << SchemaError("validateWriteRequest", msg, <<>>) >>
    IN  IF has("FUNCTION_PROPERTY") /\ val("FUNCTION_PROPERTY") = Token("WRITE", format)
        THEN IF has("LIST_PROPERTY") = has("RANGE_PROPERTY")
             THEN err("Either list or range must be present, but not both or neither")
             ELSE IF ~has("VALUES_PROPERTY")
             THEN err("values property must be present")
             ELSE IF ~has("DATATYPE_PROPERTY")
                     \/ ( val("DATATYPE_PROPERTY") # Token("BOOLEAN_OUTPUT", format)
                          /\ val("DATATYPE_PROPERTY") # Token("NUMERIC_OUTPUT", format) )
             THEN err("datatype must be either boolean-output or numeric-output")
             ELSE IF has("RANGE_PROPERTY") /\ Len(val("RANGE_PROPERTY")) = 2
                     /\ val("RANGE_PROPERTY")[2] - val("RANGE_PROPERTY")[1] + 1
                            # Len(val("VALUES_PROPERTY"))
             THEN err("Size of values does not match range")
             ELSE IF has("LIST_PROPERTY")
                     /\ Len(val("LIST_PROPERTY")) # Len(val("VALUES_PROPERTY"))
             THEN err("Size of values does not match list")
             ELSE IF has("SUBFUNCTION_PROPERTY") \/ has("PACKET_PROPERTY")
             THEN err("subfunction property should not be present")
             ELSE <<>>
        ELSE <<>>

\* The keyword validateDiagnosisRequest.
validateDiagnosisRequest(data, format) ==
    LET has(name) == hasOwnProperty(data, Token(name, format))
    IN  IF has("FUNCTION_PROPERTY")
           /\ data[Token("FUNCTION_PROPERTY", format)] = Token("DIAGNOSIS", format)
        THEN ErrorIf(~has("SUBFUNCTION_PROPERTY"),
                SchemaError("validateDiagnosisRequest",
                    "subfunction property must be present", <<>>))
             \o ErrorIf(has("VALUES_PROPERTY") \/ has("DATATYPE_PROPERTY")
                            \/ has("LIST_PROPERTY") \/ has("RANGE_PROPERTY")
                            \/ has("PACKET_PROPERTY"),
                SchemaError("validateDiagnosisRequest",
                    "No other parameters except subfunction can be present", <<>>))
        ELSE <<>>

\* The keyword validateModbusRequest.
validateModbusRequest(data, format) ==
    LET has(name) == hasOwnProperty(data, Token(name, format))
    IN  IF has("FUNCTION_PROPERTY")
           /\ data[Token("FUNCTION_PROPERTY", format)] = Token("MODBUS", format)
        THEN ErrorIf(~has("PACKET_PROPERTY"),
                SchemaError("validateModbusRequest",
                    "packet property must be present", <<>>))
             \o ErrorIf(has("VALUES_PROPERTY") \/ has("DATATYPE_PROPERTY")
                            \/ has("LIST_PROPERTY") \/ has("RANGE_PROPERTY")
                            \/ has("SUBFUNCTION_PROPERTY"),
                SchemaError("validateModbusRequest",
                    "No other parameters except packet can be present", <<>>))
        ELSE <<>>

\* validateTerse / validateVerbose: the errors of data under the schema
\* compiled for the format.
SchemaErrors(data, format) ==
    LET keys == { Token(unifiedFormat[k], format) : k \in 1..Len(unifiedFormat) }
    IN  ErrorIf(~hasOwnProperty(data, Token("ID_PROPERTY", format)),
                SchemaError("required", "must have required property id", <<>>))
        \o ErrorIf(~hasOwnProperty(data, Token("FUNCTION_PROPERTY", format)),
                SchemaError("required", "must have required property function", <<>>))
        \o ErrorIf(DOMAIN data \ keys # {},
                SchemaError("additionalProperties", "must NOT have additional properties", <<>>))
        \o PropertyErrors(data, format)
        \o validateReadRequest(data, format)
        \o validateWriteRequest(data, format)
        \o validateDiagnosisRequest(data, format)
        \o validateModbusRequest(data, format)

\* The format Validator.validate detects: 'id' is looked up before
\* 'identifier'; "none" stands for the null of an unidentified format.
DetectedFormat(data) ==
    IF hasOwnProperty(data, "id") THEN "terse"
    ELSE IF hasOwnProperty(data, "identifier") THEN "verbose"
    ELSE "none"

\* Validator.validate: validator.result after the call.
validator_validate(data) ==
    LET format == DetectedFormat(data)
    IN  IF format = "none"
        THEN [isValid |-> FALSE, format |-> "none", msg |-> "Unidentified format",
              hasAllowedValues |-> FALSE, allowedValues |-> <<>>]
        ELSE LET errors == SchemaErrors(data, format)
             IN  IF errors = <<>>
                 THEN [isValid |-> TRUE, format |-> format, msg |-> "",
                       hasAllowedValues |-> FALSE, allowedValues |-> <<>>]
                 ELSE [isValid |-> FALSE, format |-> format, msg |-> errors[1].msg,
                       hasAllowedValues |-> errors[1].keyword = "enum",
                       allowedValues |-> errors[1].allowedValues]

(***************************************************************************)
(* Client Request (clientRequest.js).                                      *)
(***************************************************************************)

\* new ClientRequest(...) throws when a frame cannot be written to a buffer.
ClientRequest_throws(content, format) ==
    LET canonical == requestFormatter_parse(content, format)
    IN  \E i \in 1..Len(parse(canonical)) :
            toBuffer_throws(parse(canonical)[i], canonical)

\* new ClientRequest(content, format, client, device); uid numbers the
\* request messages in their order of arrival (history, not in the code).
ClientRequest(content, format, client, device, uid) ==
    LET canonical == requestFormatter_parse(content, format)
        frames == parse(canonical)
    IN  [ uid             |-> uid,
          originalContent |-> content,
          originalformat  |-> format,
          content         |-> canonical,
          client          |-> client,
          device          |-> device,
          parsedRequests  |-> frames,
          bufferRequests  |-> [i \in 1..Len(frames) |-> toBuffer(frames[i], canonical)],
          bufferResponses |-> <<>>,
          responseObject  |-> null ]

\* ClientRequest.pushResponse: the message without its first byte is
\* collected; device and src record where the bytes came from (history).
pushResponse(clientRequest, response, device, src) ==
    [clientRequest EXCEPT !.bufferResponses =
        Append(@, [bytes |-> slice(response, 1), device |-> device, src |-> src])]

\* ClientRequest.errorResponse(message), message given
errorResponse(clientRequest, message) ==
    Put(Put(clientRequest.content, mb.STATUS, FALSE), mb.MESSAGE, message)

\* An every() in place of the some() of processClientResponse.
someNullBuffer_every(bufferResponses) ==
    \A i \in 1..Len(bufferResponses) : bufferResponses[i].bytes = nullBuffer

\* bufferResponses.some(buffer => buffer.equals(nullBuffer))
someNullBuffer(bufferResponses) ==
    \E i \in 1..Len(bufferResponses) : bufferResponses[i].bytes = nullBuffer

\* ClientRequest.processClientResponse throws: the debufferizer or the
\* decoder's validate threw.
processClientResponse_throws(clientRequest, hasTimedOut) ==
    /\ ~hasTimedOut
    /\ ~someNullBuffer(clientRequest.bufferResponses)
    /\ \/ toArray_throws(clientRequest)
       \/ validate_throws(clientRequest.content, clientRequest.parsedRequests,
                          toArray(clientRequest))

\* ClientRequest.processClientResponse: the request afterwards.  On a
\* timeout the error response is built and dropped, responseObject keeps its
\* value.
processClientResponse(clientRequest, hasTimedOut) ==
    IF hasTimedOut THEN clientRequest
    ELSE [clientRequest EXCEPT !.responseObject =
            correctFormat(
                IF someNullBuffer(clientRequest.bufferResponses)
                THEN errorResponse(clientRequest, "Error Retrieving Data")
                ELSE createClientResponse(clientRequest, toArray(clientRequest)),
                clientRequest.originalContent,
                clientRequest.originalformat)]

(***************************************************************************)
(* Broker (MQTTBroker in clientRequest.js).                                *)
(***************************************************************************)

\* JSON.stringify of a published object, as the document a subscriber
\* parses: null stays null, an undefined array entry becomes null.
JSON_stringify(payload) ==
    IF payload = null THEN null
    ELSE [k \in DOMAIN payload |->
            IF k \in {getKey(mb.FETCHED_DATA, "terse"), getKey(mb.FETCHED_DATA, "verbose")}
            THEN [i \in 1..Len(payload[k]) |->
                    IF payload[k][i] = undefined THEN nullEntry ELSE payload[k][i]]
            ELSE payload[k]]

\* MQTTBroker.publish of an object: one entry of the log of publications.
\* uid, adu, hasTimedOut and collected are history: the request the message
\* belongs to, the ADU it carries, and for a response how the wait ended and
\* what had been collected.
publishObject(topic, payload, uid, hasTimedOut, collected) ==
    [ topic |-> topic, json |-> JSON_stringify(payload), binary |-> <<>>,
      uid |-> uid, adu |-> 0, hasTimedOut |-> hasTimedOut, collected |-> collected ]

\* MQTTBroker.publish of a Buffer: prefixed with the byte 0x00.
publishBuffer(topic, payload, uid, adu) ==
    [ topic |-> topic, json |-> <<>>, binary |-> <<0>> \o payload,
      uid |-> uid, adu |-> adu, hasTimedOut |-> FALSE, collected |-> <<>> ]

(***************************************************************************)
(* Request queue (queue.js) and gateway handlers (gateway.js).             *)
(*                                                                         *)
(* triggerQueue is an async task: it runs without interruption from one    *)
(* await to the next.  dispatch.pc is "idle" when no task runs, "awaiting" *)
(* when the task is suspended in awaitForResponse, and "dead" when the     *)
(* task ended with an exception.  A handler that ends with an uncaught     *)
(* exception is recorded in uncaught and the gateway is taken to go on.    *)
(***************************************************************************)

Client == "c1"
Devices == {"d1", "d2"}

Idle == [pc |-> "idle", packet |-> 0, originalLength |-> 0]

\* RequestQueue.dequeue with a pop in place of the shift.
dequeue_pop(queue) == SubSeq(queue, 1, Len(queue) - 1)

\* RequestQueue.dequeue: items.shift()
dequeue(queue) == Tail(queue)

\* RequestQueue.peek
peek(queue) == queue[1]

\* RequestQueue.isEmpty
isEmpty(queue) == Len(queue) = 0

\* The test of awaitForResponse that resolves on any length.
checkLength_any(item, originalLength) ==
    Len(item.bufferResponses) >= originalLength

\* The test of checkLength in awaitForResponse: a buffer was collected
\* since the wait began.
checkLength(item, originalLength) ==
    Len(item.bufferResponses) > originalLength

\* The ADU the suspended task waits on.
InFlight == IF dispatch.pc = "awaiting"
            THEN { << peek(items).uid, dispatch.packet >> }
            ELSE {}

\* triggerQueue, from postToDeviceCallback for packet number index of the
\* head item to the suspension in awaitForResponse; q, p, f, o are the queue,
\* the log of publications, the ADUs at the field and the outstanding ADUs
\* so far in the step.
PostPacket(q, p, f, o, index) ==
    LET item == peek(q)
        packet == item.bufferRequests[index]
    IN  /\ items' = q
        /\ processing' = TRUE
        /\ dispatch' = [pc |-> "awaiting", packet |-> index,
                        originalLength |-> Len(item.bufferResponses)]
        /\ published' = Append(p, publishBuffer(<<item.client, item.device, "mbnet">>,
                                                packet, item.uid, index))
        /\ atField' = [f EXCEPT ![item.device] =
                          Append(@, [uid |-> item.uid, adu |-> index, bytes |-> packet])]
        /\ outstanding' = o \cup { << item.uid, index >> }

\* triggerQueue, from the test of its while loop: the first packet of the
\* head item is posted (every accepted request has at least one frame), or
\* the queue is empty and the task ends.
EnterLoop(q, p, f, o) ==
    IF isEmpty(q)
    THEN /\ items' = q
         /\ processing' = FALSE
         /\ dispatch' = Idle
         /\ published' = p
         /\ atField' = f
         /\ outstanding' = o
    ELSE PostPacket(q, p, f, o, 1)

\* triggerQueue, after the for loop over the packets: processClientResponse,
\* postToClientCallback, dequeue, and the while loop again.  When
\* processClientResponse throws the task ends there: processing stays true
\* and the item stays at the head.
Finalize(hasTimedOut, o) ==
    LET item == peek(items)
    IN  IF processClientResponse_throws(item, hasTimedOut)
        THEN /\ dispatch' = [dispatch EXCEPT !.pc = "dead"]
             /\ uncaught' = uncaught \cup {"triggerQueue"}
             /\ outstanding' = o
             /\ UNCHANGED <<items, processing, published, atField>>
        ELSE LET request_ == processClientResponse(item, hasTimedOut)
                 response == publishObject(
                                <<request_.client, request_.device, "response">>,
                                request_.responseObject, request_.uid, hasTimedOut,
                                [i \in 1..Len(request_.bufferResponses) |->
                                    request_.bufferResponses[i].bytes])
             IN  /\ EnterLoop(dequeue(items), Append(published, response), atField, o)
                 /\ UNCHANGED uncaught

\* RequestQueue.enqueue refusing only beyond maxSize: > for >=.
enqueue_beyond(item) ==
    IF Len(items) > MaxSize
    THEN UNCHANGED <<items, processing, dispatch, published, atField, outstanding>>
    ELSE IF ~processing
         THEN EnterLoop(Append(items, item), published, atField, outstanding)
         ELSE /\ items' = Append(items, item)
              /\ UNCHANGED <<processing, dispatch, published, atField, outstanding>>

\* RequestQueue.enqueue: dropped when the queue is full; otherwise pushed,
\* and triggerQueue is started unless one is running.
enqueue(item) ==
    IF Len(items) >= MaxSize
    THEN UNCHANGED <<items, processing, dispatch, published, atField, outstanding>>
    ELSE IF ~processing
         THEN EnterLoop(Append(items, item), published, atField, outstanding)
         ELSE /\ items' = Append(items, item)
              /\ UNCHANGED <<processing, dispatch, published, atField, outstanding>>

(***************************************************************************)
(* The inputs of the encoder specification: bounded read and write         *)
(* requests in canonical form.                                             *)
(***************************************************************************)

\* All sequences of 1..n pairwise distinct elements of S.
UniqueSeqs(S, n) ==
    { q \in UNION { [1..k -> S] : k \in 1..n } :
        \A i, j \in 1..Len(q) : i # j => q[i] # q[j] }

Addresses == 0..MaxAddr

\* Lists as the validator admits them: non-empty, unique integers.
EncoderLists == UniqueSeqs(Addresses, MaxListLen)

\* Ranges as the validator admits them: two ascending, unique integers.
EncoderRanges == { <<lo, hi>> : lo \in Addresses, hi \in Addresses } \cap
                 { r \in Seq(Addresses) : Len(r) = 2 /\ r[1] < r[2] }

\* The list and values of the write scenario of the documentation.
ExampleList == <<4, 2, 6, 3, 8, 9, 10, 22, 21, 23>>
ExampleValues == <<2, 1, 0, 15, 33, 2, 102, 7, 11, 7>>
ExampleWrite == [id |-> 5, fn |-> "u", dt |-> "no",
                 ls |-> ExampleList, dv |-> ExampleValues]

ReadRequests ==
    { [id |-> i, fn |-> "r", dt |-> d, ls |-> l] :
        i \in {MinUnitId, MaxUnitId}, d \in {"bi", "bo", "ni", "no"},
        l \in EncoderLists }
    \cup
    { [id |-> i, fn |-> "r", dt |-> d, rg |-> r] :
        i \in {MinUnitId, MaxUnitId}, d \in {"bi", "bo", "ni", "no"},
        r \in EncoderRanges }

\* An address list or range with a value for each of its addresses.
ListsWithValues ==
    UNION { {l} \X [1..Len(l) -> 0..MaxValue] : l \in EncoderLists }
RangesWithValues ==
    UNION { {r} \X [1..(r[2] - r[1] + 1) -> 0..MaxValue] : r \in EncoderRanges }

WriteRequests ==
    { [id |-> MinUnitId, fn |-> "u", dt |-> p[1], ls |-> p[2][1], dv |-> p[2][2]] :
        p \in {"bo", "no"} \X ListsWithValues }
    \cup
    { [id |-> MinUnitId, fn |-> "u", dt |-> p[1], rg |-> p[2][1], dv |-> p[2][2]] :
        p \in {"bo", "no"} \X RangesWithValues }
    \cup { ExampleWrite }

EncoderRequests == ReadRequests \cup WriteRequests

(***************************************************************************)
(* The gateway specification: request messages arrive, devices answer the  *)
(* ADUs they hold, the dispatch task collects replies or times out.        *)
(***************************************************************************)

\* ---- the messages the environment sends

\* Request payloads: three that validate (a terse read of a range in one
\* ADU, a verbose read of a list in two ADUs, a terse write of a list) and
\* two that do not (a unit id beyond the maximum, a function outside the
\* enumeration).
ReadRange == [id |-> 1, fn |-> "r", dt |-> "no", rg |-> <<0, 1>>]
ReadList == ("identifier" :> 1) @@ ("function" :> "read")
            @@ ("datatype" :> "boolean-input") @@ ("list" :> <<2, 0>>)
WriteList == [id |-> 1, fn |-> "u", dt |-> "no", ls |-> <<1, 0>>, dv |-> <<5, 6>>]
IdOutOfRange == [id |-> 500, fn |-> "r", dt |-> "bi", rg |-> <<0, 1>>]
BadFunction == [id |-> 1, fn |-> "x"]

InvalidPayloads == {IdOutOfRange, BadFunction}

\* The text of a request message: a JSON object, JSON null, a JSON number,
\* or text that is not JSON.
ObjectBody(object) == [kind |-> "object", object |-> object]
OtherBodies == { [kind |-> k, object |-> <<>>] : k \in {"null", "number", "unparsable"} }

\* The request messages: the two reads for the first device, the write for
\* the second, the others for the first.
RequestInputs ==
    { <<"d1", ObjectBody(ReadRange)>>, <<"d1", ObjectBody(ReadList)>>,
      <<"d2", ObjectBody(WriteList)>> }
    \cup { <<"d1", ObjectBody(o)>> : o \in InvalidPayloads }
    \cup { <<"d1", b>> : b \in OtherBodies }

\* The reply of a device that executes the ADU: the echo of the first six
\* bytes for a write, the byte count and the data for a read (register a
\* holds 10 + a, the first coil of every byte is on).
WellFormedReply(adu) ==
    LET start == adu[3] * 256 + adu[4]
        count == adu[5] * 256 + adu[6]
    IN  IF adu[2] \in {15, 16} THEN SubSeq(adu, 1, 6)
        ELSE IF adu[2] \in {3, 4}
        THEN << adu[1], adu[2], 2 * count >>
             \o [k \in 1..(2 * count) |->
                    IF k % 2 = 1 THEN 0 ELSE 10 + start + (k \div 2) - 1]
        ELSE << adu[1], adu[2], CeilDiv8(count) >> \o [k \in 1..CeilDiv8(count) |-> 1]

ReplyKinds == {"ok", "Null", "NullAndMore", "exception"}

\* The body of a message on the mbnet topic, after its tag byte: the reply
\* to the ADU, the field agent's "Null", "Null" followed by one more byte,
\* or a Modbus exception reply (function code with its high bit set).
Reply(kind, adu) ==
    CASE kind = "ok"          -> WellFormedReply(adu)
      [] kind = "Null"        -> nullBuffer
      [] kind = "NullAndMore" -> nullBuffer \o <<0>>
      [] kind = "exception"   -> << adu[1], adu[2] + 128, 2 >>

\* ---- the gateway

\* The specifications below each drive one of these; the others leave it
\* at rest.
AtRest == [pc |-> "off"]

AuxInit ==
    /\ exchange = AtRest
    /\ candidate = AtRest
    /\ agent = AtRest
    /\ decoding = AtRest
    /\ broker = AtRest

GatewayInit ==
    /\ items = <<>>
    /\ processing = FALSE
    /\ dispatch = Idle
    /\ published = <<>>
    /\ atField = [d \in Devices |-> <<>>]
    /\ requests = <<>>
    /\ outstanding = {}
    /\ uncaught = {}

Init ==
    /\ GatewayInit
    /\ AuxInit
    /\ request = ExampleWrite
    /\ parsedRequests = <<>>
    /\ encPc = "off"

\* The onMessage handler for a message on <client>/<device>/request.
RequestBranch(device, body) ==
    /\ LET uid == Len(requests) + 1
           \* JSON.parse, {} when it throws
           payload == IF body.kind = "object" THEN body.object ELSE <<>>
           result == validator_validate(payload)
           format == result.format
           history == [uid |-> uid, device |-> device, body |-> body,
                       isValid |-> FALSE, enqueued |-> FALSE]
       IN  CASE body.kind = "null" ->
                    \* validator.validate(null): hasOwnProperty of null
                    /\ uncaught' = uncaught \cup {"request"}
                    /\ requests' = Append(requests, history)
                    /\ UNCHANGED <<items, processing, dispatch, published,
                                   atField, outstanding>>
             [] body.kind = "number" ->
                    \* no format is found, then payload[key] = msg on a
                    \* primitive in strict mode
                    /\ uncaught' = uncaught \cup {"request"}
                    /\ requests' = Append(requests, history)
                    /\ UNCHANGED <<items, processing, dispatch, published,
                                   atField, outstanding>>
             [] body.kind \in {"object", "unparsable"} /\ result.isValid ->
                    IF ClientRequest_throws(payload, format)
                    THEN /\ uncaught' = uncaught \cup {"request"}
                         /\ requests' = Append(requests,
                                               [history EXCEPT !.isValid = TRUE])
                         /\ UNCHANGED <<items, processing, dispatch, published,
                                        atField, outstanding>>
                    ELSE /\ enqueue(ClientRequest(payload, format, Client, device, uid))
                         /\ requests' = Append(requests,
                                [history EXCEPT !.isValid = TRUE,
                                                !.enqueued = Len(items) < MaxSize])
                         /\ UNCHANGED uncaught
             [] body.kind \in {"object", "unparsable"} /\ ~result.isValid ->
                    LET withMessage == Put(payload, getKey(mb.MESSAGE, format),
                                           result.msg)
                        answer == IF result.hasAllowedValues
                                  THEN Put(withMessage,
                                           getKey(mb.ALLOWED_VALUES, format),
                                           result.allowedValues)
                                  ELSE withMessage
                    IN  /\ published' = Append(published,
                                publishObject(<<Client, device, "response">>,
                                              answer, uid, FALSE, <<>>))
                        /\ requests' = Append(requests, history)
                        /\ UNCHANGED <<items, processing, dispatch, atField,
                                       outstanding, uncaught>>
    /\ UNCHANGED <<encVars, auxVars>>

\* A request message arrives, at most MaxRequests of them in one run.
RequestMessage(device, body) ==
    /\ Len(requests) < MaxRequests
    /\ RequestBranch(device, body)

\* The onMessage handler for a message on <client>/<device>/mbnet, whoever
\* published it.  The message went through payload.toString() and
\* Buffer.from(); it is pushed to items[0], which throws when the queue is
\* empty.  publisher and src record where the message came from (history).
MbnetBranch(message, publisher, src) ==
    /\ IF isEmpty(items)
       THEN /\ uncaught' = uncaught \cup {"mbnet"}
            /\ UNCHANGED <<items, outstanding>>
       ELSE /\ items' = [items EXCEPT ![1] =
                           pushResponse(@, Utf8RoundTrip(message), publisher, src)]
            /\ outstanding' = outstanding \ InFlight
            /\ UNCHANGED uncaught
    /\ UNCHANGED <<processing, dispatch, published, requests, encVars, auxVars>>

\* The device answers the oldest ADU it holds: the field agent publishes
\* the body behind its tag 01 on the mbnet topic.
MbnetDeliver(device, body) ==
    /\ atField[device] # <<>>
    /\ LET adu == Head(atField[device])
       IN  /\ atField' = [atField EXCEPT ![device] = Tail(@)]
           /\ MbnetBranch(<<1>> \o body, device, <<adu.uid, adu.adu>>)

\* The device answers with one of the enumerated kinds of reply.
MbnetMessage(device, kind) ==
    /\ atField[device] # <<>>
    /\ MbnetDeliver(device, Reply(kind, Head(atField[device]).bytes))

\* awaitForResponse resolves and triggerQueue goes on: the next packet of
\* the item, or the end of the item.
ResponseSeen ==
    /\ dispatch.pc = "awaiting"
    /\ checkLength(peek(items), dispatch.originalLength)
    /\ IF dispatch.packet < Len(peek(items).bufferRequests)
       THEN /\ PostPacket(items, published, atField, outstanding, dispatch.packet + 1)
            /\ UNCHANGED uncaught
       ELSE Finalize(FALSE, outstanding)
    /\ UNCHANGED <<requests, encVars, auxVars>>

\* The catch of triggerQueue without its break: the loop over the packets
\* goes on after a timeout.
TimedOut_resumes ==
    /\ dispatch.pc = "awaiting"
    /\ ~checkLength(peek(items), dispatch.originalLength)
    /\ IF dispatch.packet < Len(peek(items).bufferRequests)
       THEN /\ PostPacket(items, published, atField, outstanding \ InFlight,
                         dispatch.packet + 1)
            /\ UNCHANGED uncaught
       ELSE Finalize(TRUE, outstanding \ InFlight)
    /\ UNCHANGED <<requests, encVars, auxVars>>

\* awaitForResponse rejects after its timeout, nothing collected since it
\* began: the remaining packets are skipped and the item ends.
TimedOut ==
    /\ dispatch.pc = "awaiting"
    /\ ~checkLength(peek(items), dispatch.originalLength)
    /\ Finalize(TRUE, outstanding \ InFlight)
    /\ UNCHANGED <<requests, encVars, auxVars>>

Next ==
    \/ \E input \in RequestInputs : RequestMessage(input[1], input[2])
    \/ \E device \in Devices, kind \in ReplyKinds : MbnetMessage(device, kind)
    \/ ResponseSeen
    \/ TimedOut

Spec == Init /\ [][Next]_vars

(***************************************************************************)
(* The encoder specification: parse applied to one request.                *)
(***************************************************************************)

InitEncoder ==
    /\ request \in EncoderRequests
    /\ parsedRequests = <<>>
    /\ encPc = "input"
    /\ GatewayInit
    /\ AuxInit

\* ModbusPacketConstructor.parse(request)
ParseRequest ==
    /\ encPc = "input"
    /\ parsedRequests' = parse(request)
    /\ encPc' = "encoded"
    /\ UNCHANGED <<request, gwVars, auxVars>>

NextEncoder == ParseRequest

SpecEncoder == InitEncoder /\ [][NextEncoder]_vars

(***************************************************************************)
(* Claims on the encoder.                                                  *)
(***************************************************************************)

\* The set of addresses a frame [id, function, start, count, ...] covers.
FrameAddresses(frame) == frame[3]..(frame[3] + frame[4] - 1)

ListEncoded == encPc = "encoded" /\ hasOwnProperty(request, "ls")

\* C9: for a read or write request with a list of unique integers, the
\* frames cover exactly the addresses of the list, every frame is a non-empty
\* run, and each frame starts beyond the end of the previous one with a gap
\* (no overlap, no adjacency, ascending start order): the frames are the
\* maximal contiguous runs of the sorted list.
C9_MaximalRuns ==
    ListEncoded =>
        /\ UNION { FrameAddresses(parsedRequests[i]) : i \in 1..Len(parsedRequests) }
             = { request.ls[k] : k \in 1..Len(request.ls) }
        /\ \A i \in 1..Len(parsedRequests) : parsedRequests[i][4] >= 1
        /\ \A i \in 1..(Len(parsedRequests) - 1) :
             parsedRequests[i][3] + parsedRequests[i][4] < parsedRequests[i + 1][3]

\* C9 witness: an unsorted list was encoded into more than one frame.
C9_Witness ==
    /\ ListEncoded
    /\ Len(parsedRequests) >= 2
    /\ \E k \in 1..(Len(request.ls) - 1) : request.ls[k] > request.ls[k + 1]

\* C10: for a write request with ls and dv, the value emitted for address
\* ls[k], in the frame covering it at offset ls[k] - start, is dv[k], for
\* every k; and the documented list yields four frames of counts 3, 1, 3, 3.
C10_ValuesAligned ==
    (ListEncoded /\ request.fn = "u") =>
        /\ \A k \in 1..Len(request.ls) :
             \E i \in 1..Len(parsedRequests) :
                /\ request.ls[k] \in FrameAddresses(parsedRequests[i])
                /\ Len(parsedRequests[i]) = 4 + parsedRequests[i][4]
                /\ parsedRequests[i][5 + request.ls[k] - parsedRequests[i][3]]
                     = request.dv[k]
        /\ request = ExampleWrite =>
             [i \in 1..Len(parsedRequests) |-> parsedRequests[i][4]] = <<3, 1, 3, 3>>

\* C10 witness: the documented write, whose list is not sorted, was encoded
\* into four frames.
C10_Witness ==
    /\ ListEncoded
    /\ request.fn = "u"
    /\ request = ExampleWrite
    /\ Len(parsedRequests) = 4

(***************************************************************************)
(* Claims on the gateway.                                                  *)
(***************************************************************************)

Formats == {"terse", "verbose"}

\* The published document has the field, under its terse or verbose key.
HasField(json, mbValue) ==
    \E f \in Formats : getKey(mbValue, f) \in DOMAIN json

\* The value of a field the document has.
Field(json, mbValue) ==
    json[CHOOSE key \in DOMAIN json : \E f \in Formats : key = getKey(mbValue, f)]

\* The positions in the log of the messages published on the response
\* topic for request uid.
Responses(uid) ==
    { k \in 1..Len(published) :
        published[k].topic[3] = "response" /\ published[k].uid = uid }

\* The positions in the log of the ADUs published for request uid.
Adus(uid) ==
    { k \in 1..Len(published) :
        published[k].topic[3] = "mbnet" /\ published[k].uid = uid }

\* Request uid is in the queue.
Queued(uid) == \E i \in 1..Len(items) : items[i].uid = uid

\* The uids of the requests enqueued for a device, in enqueue order.
EnqueuedFor(device) ==
    LET Test(r) == r.enqueued /\ r.device = device
        selected == SelectSeq(requests, Test)
    IN  [k \in 1..Len(selected) |-> selected[k].uid]

\* The uids of the responses published for validated requests of a device,
\* in publication order.
RespondedFor(device) ==
    LET Test(p) == /\ p.topic[3] = "response"
                   /\ p.topic[2] = device
                   /\ requests[p.uid].isValid
        selected == SelectSeq(published, Test)
    IN  [k \in 1..Len(selected) |-> selected[k].uid]

\* C1: every request that passed validation has exactly one message
\* published on its response topic: never two, and one as soon as the
\* gateway is no longer working on it (it is not in the queue of a
\* dispatch task that is waiting for a reply or a timeout).
C1_ExactlyOneResponse ==
    \A r \in 1..Len(requests) :
        requests[r].isValid =>
            /\ Cardinality(Responses(r)) <= 1
            /\ \/ Cardinality(Responses(r)) = 1
               \/ dispatch.pc = "awaiting" /\ Queued(r)

\* C2: for every device, the responses to its enqueued requests are
\* published in the order in which the requests were enqueued: the
\* responses so far are those of the first enqueued requests, in order.
C2_FifoOrder ==
    \A d \in Devices :
        LET responded == RespondedFor(d)
            enqueued == EnqueuedFor(d)
        IN  /\ Len(responded) <= Len(enqueued)
            /\ responded = SubSeq(enqueued, 1, Len(responded))

\* C2 witness: two requests for one device, with different numbers of ADUs,
\* have both been answered, the first after a timeout.
C2_Witness ==
    \E d \in Devices :
        /\ Len(RespondedFor(d)) = 2
        /\ Cardinality(Adus(RespondedFor(d)[1])) # Cardinality(Adus(RespondedFor(d)[2]))
        /\ \E k \in Responses(RespondedFor(d)[1]) : published[k].hasTimedOut

\* C3: the response published for a request whose wait timed out is a
\* record with status false and message "Timed Out", without fetched data.
C3_TimedOutResponse ==
    \A k \in 1..Len(published) :
        (published[k].topic[3] = "response" /\ published[k].hasTimedOut) =>
            /\ HasField(published[k].json, mb.STATUS)
            /\ Field(published[k].json, mb.STATUS) = FALSE
            /\ HasField(published[k].json, mb.MESSAGE)
            /\ Field(published[k].json, mb.MESSAGE) = "Timed Out"
            /\ ~HasField(published[k].json, mb.FETCHED_DATA)

\* C4: for every request message that fails validation exactly one response
\* is published, carrying status false and a message (and the allowed values
\* when the function is outside its enumeration); nothing is enqueued and
\* no ADU is published for it.
C4_RejectedRequest ==
    \A r \in 1..Len(requests) :
        ~requests[r].isValid =>
            /\ Cardinality(Responses(r)) = 1
            /\ \A k \in Responses(r) :
                /\ HasField(published[k].json, mb.STATUS)
                /\ Field(published[k].json, mb.STATUS) = FALSE
                /\ HasField(published[k].json, mb.MESSAGE)
                /\ requests[r].body = ObjectBody(BadFunction)
                      => HasField(published[k].json, mb.ALLOWED_VALUES)
            /\ ~Queued(r)
            /\ Adus(r) = {}

\* A published response to a request that did not time out, one of whose
\* collected buffers satisfies IsSentinel, is the error response of a field
\* failure.
SentinelFails(IsSentinel(_)) ==
    \A k \in 1..Len(published) :
        ( /\ published[k].topic[3] = "response"
          /\ requests[published[k].uid].isValid
          /\ ~published[k].hasTimedOut
          /\ \E i \in 1..Len(published[k].collected) :
                IsSentinel(published[k].collected[i]) ) =>
            /\ HasField(published[k].json, mb.STATUS)
            /\ Field(published[k].json, mb.STATUS) = FALSE
            /\ HasField(published[k].json, mb.MESSAGE)
            /\ Field(published[k].json, mb.MESSAGE) = "Error Retrieving Data"

\* The buffer is exactly the four bytes "Null".
IsNull(buffer) == buffer = <<78, 117, 108, 108>>

\* The first four bytes of the buffer are "Null".
StartsWithNull(buffer) ==
    Len(buffer) >= 4 /\ SubSeq(buffer, 1, 4) = <<78, 117, 108, 108>>

C6_PositionalReplies ==
    \A n \in 1..Len(items) :
        \A i \in 1..Len(items[n].bufferResponses) :
            items[n].bufferResponses[i].src = << items[n].uid, i >>

\* C7: a buffer collected by a request arrived on the mbnet topic of the
\* device the request is addressed to.
C7_DeviceKeyed ==
    \A n \in 1..Len(items) :
        \A i \in 1..Len(items[n].bufferResponses) :
            items[n].bufferResponses[i].device = items[n].device

\* C8: for every device, at most one ADU is published to the field and
\* neither answered by a collected buffer nor timed out.
C8_OneOutstanding ==
    \A d \in Devices :
        Cardinality({ o \in outstanding : requests[o[1]].device = d }) <= 1

\* C8 witness: the second ADU of a request is outstanding, after the first
\* was answered, while a second request for the same device waits in the
\* queue.
C8_Witness ==
    /\ dispatch.pc = "awaiting"
    /\ dispatch.packet = 2
    /\ outstanding = { << peek(items).uid, 2 >> }
    /\ Len(items) = 2
    /\ items[2].device = items[1].device


(***************************************************************************)
(* The exchange specification: one request through the gateway, the field  *)
(* device answering every ADU from its memory.                             *)
(***************************************************************************)

\* The memory of the field device: the coils at the addresses of image
\* are on, the others off; the registers at those addresses hold 200
\* (00 C8), a register at another address a holds (a % 16) + 1.
Coil(image, a) == IF a \in image THEN 1 ELSE 0
Register(image, a) == IF a \in image THEN 200 ELSE (a % 16) + 1

\* The data byte for n coils from address first, lowest bit first.
RECURSIVE CoilByte(_, _, _)
CoilByte(image, first, n) ==
    IF n = 0 THEN 0
    ELSE Coil(image, first) + 2 * CoilByte(image, first + 1, n - 1)

\* The reply of the device to a read ADU or to a diagnostics ADU, as the
\* field agent forwards it (without its CRC): unit, function, byte count
\* and the data for a read; unit, function, subfunction and the datum for
\* diagnostics.
FieldFrame(image, datum, adu) ==
    LET start == adu[3] * 256 + adu[4]
        count == adu[5] * 256 + adu[6]
    IN  CASE adu[2] \in {1, 2} ->
                << adu[1], adu[2], CeilDiv8(count) >>
                \o [j \in 1..CeilDiv8(count) |->
                      CoilByte(image, start + 8 * (j - 1),
                               IF count - 8 * (j - 1) < 8
                               THEN count - 8 * (j - 1) ELSE 8)]
          [] adu[2] \in {3, 4} ->
                << adu[1], adu[2], 2 * count >>
                \o [k \in 1..(2 * count) |->
                      UInt16BE(Register(image, start + ((k - 1) \div 2)))[2 - (k % 2)]]
          [] adu[2] = 8 ->
                SubSeq(adu, 1, 4) \o UInt16BE(datum)

\* The read of the documentation whose list splits into two runs, the range
\* read of the documentation, and the diagnostics request.
ListReadExample ==
    [id |-> 1, fn |-> "r", dt |-> "bi", ls |-> <<0, 1, 5, 7, 8, 9, 15>>]
RangeReadExample == [id |-> 7, fn |-> "r", dt |-> "ni", rg |-> <<16, 25>>]
DiagnosisExample == [id |-> 22, fn |-> "d", sf |-> "rqdt"]

\* The reads of the exchanges: every enumerated list and range, each data
\* type, in the terse vocabulary.
ExchangeReads ==
    { [id |-> 1, fn |-> "r", dt |-> d, ls |-> l] :
        d \in {"bi", "bo", "ni", "no"}, l \in EncoderLists }
    \cup
    { [id |-> 1, fn |-> "r", dt |-> d, rg |-> r] :
        d \in {"bi", "bo", "ni", "no"}, r \in EncoderRanges }
    \cup {ListReadExample, RangeReadExample}

\* The memories: nothing set, one enumerated address set, or address 12.
Images == {{}} \cup { {a} : a \in Addresses } \cup {{12}}

\* The data a device returns for Return Query Data.
Datums == {0, 1, 200}

ExchangeInputs ==
    { [pc |-> "on", payload |-> r, image |-> i, datum |-> 0] :
        r \in ExchangeReads, i \in Images }
    \cup
    { [pc |-> "on", payload |-> DiagnosisExample, image |-> {}, datum |-> d] :
        d \in Datums }

InitExchange ==
    /\ GatewayInit
    /\ request = ExampleWrite
    /\ parsedRequests = <<>>
    /\ encPc = "off"
    /\ exchange \in ExchangeInputs
    /\ candidate = AtRest
    /\ agent = AtRest
    /\ decoding = AtRest
    /\ broker = AtRest

\* The request arrives on the request topic of the first device.
SubmitRequest ==
    /\ requests = <<>>
    /\ RequestMessage("d1", ObjectBody(exchange.payload))

\* The device answers the oldest ADU it holds from its memory.
FieldReplies ==
    \E device \in Devices :
        /\ atField[device] # <<>>
        /\ MbnetDeliver(device, FieldFrame(exchange.image, exchange.datum,
                                           Head(atField[device]).bytes))

NextExchange ==
    \/ SubmitRequest
    \/ FieldReplies
    \/ ResponseSeen
    \/ TimedOut

SpecExchange == InitExchange /\ [][NextExchange]_vars

(***************************************************************************)
(* Claims on the exchange.                                                 *)
(***************************************************************************)

\* The ADUs published for the request, in order, without the tag byte.
EmittedAdus ==
    LET Test(p) == p.topic[3] = "mbnet"
        sent == SelectSeq(published, Test)
    IN  [k \in 1..Len(sent) |-> Tail(sent[k].binary)]

\* The request has been answered after every one of its frames got the
\* reply of the device, none of them late.
AnsweredInFull ==
    /\ Responses(1) # {}
    /\ \A k \in Responses(1) :
        /\ ~published[k].hasTimedOut
        /\ Len(published[k].collected) = Len(EmittedAdus)

\* The values the device holds at the addresses of a list, in the order of
\* the list, for the data type of the request.
HeldAt(list) ==
    [i \in 1..Len(list) |->
        IF exchange.payload.dt \in {"ni", "no"}
        THEN Register(exchange.image, list[i])
        ELSE Coil(exchange.image, list[i])]

\* The response to the request carries status true and these fetched data.
RespondsWith(values) ==
    \A k \in Responses(1) :
        /\ published[k].json # null
        /\ HasField(published[k].json, mb.STATUS)
        /\ Field(published[k].json, mb.STATUS) = TRUE
        /\ HasField(published[k].json, mb.FETCHED_DATA)
        /\ Field(published[k].json, mb.FETCHED_DATA) = values

\* C11: the read {id:1, fn:r, dt:bi, ls:[0,1,5,7,8,9,15]} emits exactly the
\* two ADUs 01 02 00 00 00 02 and 01 02 00 05 00 0B, and its response
\* carries the 7 values the device holds at the addresses of the list, in
\* the order of the list.
C11_ListReadExample ==
    (exchange.payload = ListReadExample /\ AnsweredInFull) =>
        /\ EmittedAdus = << <<1, 2, 0, 0, 0, 2>>, <<1, 2, 0, 5, 0, 11>> >>
        /\ RespondsWith(HeldAt(ListReadExample.ls))

\* C11, as the encoder behaves: the list [0,1,5,7,8,9,15] has four maximal
\* runs of consecutive addresses, so the read emits exactly the four ADUs
\* 01 02 00 00 00 02, 01 02 00 05 00 01, 01 02 00 07 00 03 and
\* 01 02 00 0F 00 01, and its response carries the 7 values the device
\* holds at the addresses of the list, in the order of the list.
C11_FourRuns ==
    (exchange.payload = ListReadExample /\ AnsweredInFull) =>
        /\ EmittedAdus = << <<1, 2, 0, 0, 0, 2>>, <<1, 2, 0, 5, 0, 1>>,
                            <<1, 2, 0, 7, 0, 3>>, <<1, 2, 0, 15, 0, 1>> >>
        /\ RespondsWith(HeldAt(ListReadExample.ls))

\* The example read was answered in full by a device whose coil 1 is on.
C11_Witness ==
    /\ exchange.payload = ListReadExample
    /\ exchange.image = {1}
    /\ AnsweredInFull
    /\ RespondsWith(<<0, 1, 0, 0, 0, 0, 0>>)

\* The request of the exchange is a read with a list.
IsListRead ==
    /\ exchange.payload.fn = "r"
    /\ hasOwnProperty(exchange.payload, "ls")

\* C12: for every read with a list whose frames all got the replies of the
\* device, fetched-data has the length of the list and its i-th element is
\* the value the device returned for address ls[i], in the order of the
\* caller's list.
C12_ListOrder ==
    (IsListRead /\ AnsweredInFull) =>
        \A k \in Responses(1) :
            /\ published[k].json # null
            /\ HasField(published[k].json, mb.FETCHED_DATA)
            /\ Field(published[k].json, mb.FETCHED_DATA) = HeldAt(exchange.payload.ls)

\* The request of the exchange is a read with a range.
IsRangeRead ==
    /\ exchange.payload.fn = "r"
    /\ hasOwnProperty(exchange.payload, "rg")

\* The code of the read function for a data type.
ReadCode(dt) ==
    CASE dt = "bo" -> 1 [] dt = "bi" -> 2 [] dt = "no" -> 3 [] dt = "ni" -> 4

\* The addresses lo..hi of a range, in order.
AddressesOf(rg) == [i \in 1..(rg[2] - rg[1] + 1) |-> rg[1] + i - 1]

\* C13: a read with rg = [lo, hi] emits exactly one 6-byte ADU [id,
\* code(fn, dt), lo, hi - lo + 1], and when the reply carries the
\* hi - lo + 1 values the response has status true and fetched-data equal to
\* those values in address order.
C13_RangeRead ==
    (IsRangeRead /\ AnsweredInFull) =>
        /\ EmittedAdus = << << exchange.payload.id, ReadCode(exchange.payload.dt) >>
                            \o UInt16BE(exchange.payload.rg[1])
                            \o UInt16BE(exchange.payload.rg[2]
                                        - exchange.payload.rg[1] + 1) >>
        /\ RespondsWith(HeldAt(AddressesOf(exchange.payload.rg)))

\* C20: a diagnosis request emits exactly one 6-byte ADU [id, 0x08,
\* subfunction code, 0x0000]; when its subfunction is data-fetching and
\* the reply carries the same unit, function and subfunction, the response
\* has status true and fetched-data of length 1 holding the 16-bit datum of
\* the reply, whatever its value.
C20_Diagnosis ==
    (exchange.payload.fn = "d" /\ AnsweredInFull) =>
        /\ EmittedAdus = << << exchange.payload.id, 8 >>
                            \o UInt16BE(diagnosisMap(exchange.payload.sf))
                            \o << 0, 0 >> >>
        /\ dataFetcherSubfunctionMap(exchange.payload.sf) =>
                RespondsWith(<< exchange.datum >>)

(***************************************************************************)
(* The validator specification: one payload validated, then built into a   *)
(* Client Request or projected back into its own vocabulary.               *)
(***************************************************************************)

\* A terse payload with unit i and function f; a field is left out when its
\* argument is "-" (strings) or the empty array (arrays).
Payload(i, f, dt, rg, ls, dv, sf, pk) ==
    [k \in {"id", "fn"}
           \cup (IF dt = "-" THEN {} ELSE {"dt"})
           \cup (IF rg = <<>> THEN {} ELSE {"rg"})
           \cup (IF ls = <<>> THEN {} ELSE {"ls"})
           \cup (IF dv = <<>> THEN {} ELSE {"dv"})
           \cup (IF sf = "-" THEN {} ELSE {"sf"})
           \cup (IF pk = <<>> THEN {} ELSE {"pk"}) |->
        CASE k = "id" -> i
          [] k = "fn" -> f
          [] k = "dt" -> dt
          [] k = "rg" -> rg
          [] k = "ls" -> ls
          [] k = "dv" -> dv
          [] k = "sf" -> sf
          [] k = "pk" -> pk]

\* Every function with every combination of the optional fields.
TersePayloads ==
    { Payload(1, f, dt, rg, ls, dv, sf, pk) :
        f \in {"r", "u", "d", "m"},
        dt \in {"-", "bi", "bo", "no"},
        rg \in {<<>>, <<0, 1>>, <<0, 2>>},
        ls \in {<<>>, <<1, 0>>, <<3>>},
        dv \in {<<>>, <<5>>, <<5, 6>>},
        sf \in {"-", "rqdt"},
        pk \in {<<>>, <<1, 2>>} }

\* The verbose token of a terse token of either registry.
VerboseToken(value) ==
    IF \E k \in DOMAIN modbusKeywords : modbusKeywords[k][1] = value
    THEN modbusKeywords[CHOOSE k \in DOMAIN modbusKeywords :
                            modbusKeywords[k][1] = value][2]
    ELSE IF \E k \in DOMAIN diagnosisKeywords : diagnosisKeywords[k][1] = value
    THEN diagnosisKeywords[CHOOSE k \in DOMAIN diagnosisKeywords :
                            diagnosisKeywords[k][1] = value][2]
    ELSE value

\* A terse payload written in the verbose vocabulary.
Verbose(payload) ==
    [key \in { getKey(k, "verbose") : k \in DOMAIN payload } |->
        LET k == CHOOSE t \in DOMAIN payload : getKey(t, "verbose") = key
        IN  IF k \in {"fn", "dt", "sf"} THEN VerboseToken(payload[k])
            ELSE payload[k]]

\* A write of 124 registers and a raw request of 253 bytes.
LargeWrite == [id |-> 1, fn |-> "u", dt |-> "no", rg |-> <<0, 123>>,
               dv |-> [k \in 1..124 |-> 0]]
LargePacket == [id |-> 1, fn |-> "m", pk |-> [k \in 1..253 |-> 0]]

\* A write of one register with a value of 17 bits, and a read of an
\* address of 17 bits.
WideValue == [id |-> 1, fn |-> "u", dt |-> "no", ls |-> <<0>>,
              dv |-> <<65536>>]
WideAddress == [id |-> 1, fn |-> "r", dt |-> "no", ls |-> <<65536>>]

Candidates ==
    TersePayloads \cup { Verbose(payload) : payload \in TersePayloads }
    \cup InvalidPayloads \cup {LargeWrite, LargePacket, WideValue, WideAddress}

InitValidator ==
    /\ GatewayInit
    /\ request = ExampleWrite
    /\ parsedRequests = <<>>
    /\ encPc = "off"
    /\ exchange = AtRest
    /\ agent = AtRest
    /\ decoding = AtRest
    /\ broker = AtRest
    /\ \E data \in Candidates :
        candidate = [pc |-> "payload", data |-> data, result |-> <<>>,
                     clientRequest |-> null, projected |-> <<>>]

\* validator.validate(payload)
Validate ==
    /\ candidate.pc = "payload"
    /\ candidate' = [candidate EXCEPT !.pc = "validated",
                                      !.result = validator_validate(candidate.data)]
    /\ UNCHANGED <<encVars, gwVars, exchange, agent, decoding, broker>>

\* new ClientRequest(payload, validator.result.format, client, device) for
\* an accepted payload.
Construct ==
    /\ candidate.pc = "validated"
    /\ candidate.result.isValid
    /\ candidate' =
          IF ClientRequest_throws(candidate.data, candidate.result.format)
          THEN [candidate EXCEPT !.pc = "threw"]
          ELSE [candidate EXCEPT !.pc = "constructed",
                    !.clientRequest = ClientRequest(candidate.data,
                            candidate.result.format, Client, "d1", 1)]
    /\ UNCHANGED <<encVars, gwVars, exchange, agent, decoding, broker>>

\* RequestFormatter.correctFormat(requestFormatter.parse(req, format), req,
\* format) for an accepted payload.
Project ==
    /\ candidate.pc = "validated"
    /\ candidate.result.isValid
    /\ candidate' = [candidate EXCEPT !.pc = "projected",
            !.projected = correctFormat(
                requestFormatter_parse(candidate.data, candidate.result.format),
                candidate.data, candidate.result.format)]
    /\ UNCHANGED <<encVars, gwVars, exchange, agent, decoding, broker>>

NextValidator ==
    \/ Validate
    \/ Construct
    \/ Project

SpecValidator == InitValidator /\ [][NextValidator]_vars

(***************************************************************************)
(* Claims on the validator.                                                *)
(***************************************************************************)

\* The payload has the field, in the vocabulary f.
Has(name, f) == hasOwnProperty(candidate.data, Token(name, f))

\* The payload asks for the function, in the vocabulary f.
Asks(function, f) ==
    /\ Has("FUNCTION_PROPERTY", f)
    /\ candidate.data[Token("FUNCTION_PROPERTY", f)] = Token(function, f)

\* The validator has accepted the payload.
Accepted == candidate.pc # "payload" /\ candidate.result.isValid

\* C14: a read is accepted only if exactly one of range and list is
\* present, values, subfunction and packet are absent, and the data type is
\* present, under either vocabulary.
C14_ReadRules ==
    \A f \in Formats :
        (Asks("READ", f) /\ Accepted) =>
            /\ Has("RANGE_PROPERTY", f) # Has("LIST_PROPERTY", f)
            /\ ~Has("VALUES_PROPERTY", f)
            /\ ~Has("SUBFUNCTION_PROPERTY", f)
            /\ ~Has("PACKET_PROPERTY", f)
            /\ Has("DATATYPE_PROPERTY", f)

\* The value of a field of the payload, in the vocabulary f.
Value(name, f) == candidate.data[Token(name, f)]

\* C15: a write is accepted only if exactly one of range and list is
\* present, values is present with as many entries as the range has
\* addresses (hi - lo + 1) or the list has elements, the data type is
\* boolean-output or numeric-output, and subfunction and packet are absent.
C15_WriteRules ==
    \A f \in Formats :
        (Asks("WRITE", f) /\ Accepted) =>
            /\ Has("RANGE_PROPERTY", f) # Has("LIST_PROPERTY", f)
            /\ Has("VALUES_PROPERTY", f)
            /\ Has("RANGE_PROPERTY", f) =>
                  Len(Value("VALUES_PROPERTY", f))
                      = Value("RANGE_PROPERTY", f)[2] - Value("RANGE_PROPERTY", f)[1] + 1
            /\ Has("LIST_PROPERTY", f) =>
                  Len(Value("VALUES_PROPERTY", f)) = Len(Value("LIST_PROPERTY", f))
            /\ Has("DATATYPE_PROPERTY", f)
            /\ Value("DATATYPE_PROPERTY", f)
                  \in {Token("BOOLEAN_OUTPUT", f), Token("NUMERIC_OUTPUT", f)}
            /\ ~Has("SUBFUNCTION_PROPERTY", f)
            /\ ~Has("PACKET_PROPERTY", f)

\* A verbose write with a list of two addresses and two values has been
\* accepted.
C15_Witness ==
    /\ Asks("WRITE", "verbose")
    /\ Accepted
    /\ Has("LIST_PROPERTY", "verbose")
    /\ Len(Value("LIST_PROPERTY", "verbose")) = 2

\* C16: every ADU buffer built for an accepted request is at most 253
\* bytes long.
C16_AduLength ==
    candidate.pc = "constructed" =>
        \A i \in 1..Len(candidate.clientRequest.bufferRequests) :
            Len(candidate.clientRequest.bufferRequests[i]) <= 253

\* C19: for every accepted request req, terse or verbose,
\* correctFormat(parse(req, format), req, format) is a record with exactly
\* the keys and values of req.
C19_RoundTrip ==
    candidate.pc = "projected" => candidate.projected = candidate.data

\* A verbose write was canonicalised and projected back.
C19_Witness ==
    /\ candidate.pc = "projected"
    /\ Asks("WRITE", "verbose")
    /\ Value("DATATYPE_PROPERTY", "verbose") = "numeric-output"

(***************************************************************************)
(* Field agent (main.c, modbusserial.c): the handler of one MQTT message,  *)
(* with its exchange on the UART.                                          *)
(***************************************************************************)

\* a ^ b on unsigned integers.
RECURSIVE Xor(_, _)
Xor(a, b) ==
    IF a = 0 THEN b
    ELSE IF b = 0 THEN a
    ELSE (((a % 2) + (b % 2)) % 2) + 2 * Xor(a \div 2, b \div 2)

\* The inner loop of modbus_evaluateCRC: i shifts of the 16-bit CRC, with
\* the polynomial 0xA001 applied when the lowest bit is set.
RECURSIVE ShiftLoop(_, _)
ShiftLoop(CRC, i) ==
    IF i = 8 THEN CRC
    ELSE ShiftLoop(IF CRC % 2 = 1 THEN Xor(CRC \div 2, 40961) ELSE CRC \div 2,
                   i + 1)

\* The outer loop of modbus_evaluateCRC; byte is a uint8_t.
RECURSIVE ByteLoop(_, _, _, _)
ByteLoop(data, length, byte, CRC) ==
    IF byte >= length THEN CRC
    ELSE ByteLoop(data, length, (byte + 1) % 256,
                  ShiftLoop(Xor(CRC, data[byte + 1]), 0))

\* modbus_evaluateCRC(data, length), CRC starting at 0xFFFF
modbus_evaluateCRC(data, length) == ByteLoop(data, length, 0, 65535)

\* A lowByte that returns the high byte.
lowByte_high(word) == (word \div 256) % 256

\* lowByte(word) and highByte(word)
lowByte(word) == word % 256
highByte(word) == (word \div 256) % 256

\* The frame gatewayHandler transmits for a message: the bytes after the
\* tag, then the CRC over them, low byte first.
TransmittedFrame(data) ==
    LET frame == Tail(data)
        crc == modbus_evaluateCRC(frame, Len(frame))
    IN  frame \o << lowByte(crc), highByte(crc) >>

\* The message gatewayHandler publishes after reading response from the
\* UART: the tag 0x01, then "Null" when nothing was read, the response
\* without its last two bytes otherwise.
TaggedResponse(response) ==
    IF Len(response) < 1 THEN <<1>> \o nullBuffer
    ELSE <<1>> \o SubSeq(response, 1, Len(response) - 2)

\* The bytes of the enumerated frames.
AgentBytes == {0, 1, 128, 255}

\* The frames of at most n bytes.
Frames(n) == UNION { [1..k -> AgentBytes] : k \in 0..n }

\* The messages on the mbnet topic: an ADU behind the tag 0x00 of the
\* gateway, the agent's own publications behind 0x01, and messages behind
\* 0xFF.
AgentMessages == { <<t>> \o f : t \in {0, 1, 255}, f \in Frames(MaxFrameLen) }

\* What modbus_readResponsePacket can return: nothing, a single byte, a
\* frame followed by its CRC, a frame followed by another CRC.
UartResponses ==
    {<<>>} \cup { <<b>> : b \in AgentBytes }
    \cup { f \o << lowByte(modbus_evaluateCRC(f, Len(f))),
                   highByte(modbus_evaluateCRC(f, Len(f))) >> :
              f \in Frames(MaxReplyLen) }
    \cup { f \o << lowByte(modbus_evaluateCRC(f, Len(f))),
                   (highByte(modbus_evaluateCRC(f, Len(f))) + 1) % 256 >> :
              f \in Frames(MaxReplyLen) }

InitAgent ==
    /\ GatewayInit
    /\ request = ExampleWrite
    /\ parsedRequests = <<>>
    /\ encPc = "off"
    /\ exchange = AtRest
    /\ candidate = AtRest
    /\ decoding = AtRest
    /\ broker = AtRest
    /\ \E data \in AgentMessages :
        agent = [pc |-> "received", data |-> data, sent |-> <<>>,
                 response |-> <<>>, published |-> <<>>]

\* mqtt_dataEventHandler and gatewayHandler for the message received.  A
\* response of one byte makes the length of the memcpy into taggedResponse
\* negative: the handler crashes, or goes on and publishes the tag alone.
gatewayHandler ==
    /\ agent.pc = "received"
    /\ IF agent.data[1] \in {255, 1}
       THEN agent' = [agent EXCEPT !.pc = "ignored"]
       ELSE \E response \in UartResponses :
              \E outcome \in IF Len(response) = 1 THEN {"crashed", "handled"}
                                                 ELSE {"handled"} :
                agent' = [agent EXCEPT
                    !.pc = outcome,
                    !.sent = TransmittedFrame(agent.data),
                    !.response = response,
                    !.published = IF outcome = "crashed" THEN <<>>
                                  ELSE TaggedResponse(response)]
    /\ UNCHANGED <<encVars, gwVars, exchange, candidate, decoding, broker>>

NextAgent == gatewayHandler

SpecAgent == InitAgent /\ [][NextAgent]_vars

(***************************************************************************)
(* Claims on the field agent.                                              *)
(***************************************************************************)

\* The handler went through its exchange on the UART.
Exchanged == agent.pc \in {"handled", "crashed"}

\* C17: after the exchange the agent publishes the tagged "Null" exactly
\* when nothing was read or the CRC over the received frame is not 0;
\* otherwise it publishes the tag followed by the frame without its two
\* CRC bytes.  A frame with a wrong CRC is never forwarded.
C17_NullOnFailure ==
    Exchanged =>
        agent.published =
            IF \/ Len(agent.response) = 0
               \/ modbus_evaluateCRC(agent.response, Len(agent.response)) # 0
            THEN <<1>> \o nullBuffer
            ELSE <<1>> \o SubSeq(agent.response, 1, Len(agent.response) - 2)

\* C18: modbus_evaluateCRC over a frame followed by its two CRC bytes, low
\* byte first, is 0: every frame the agent transmits passes the check the
\* agent applies to replies.
C18_CrcOfFrameWithCrc ==
    agent.pc = "handled" =>
        modbus_evaluateCRC(agent.sent, Len(agent.sent)) = 0

\* The agent transmitted a frame of three bytes 01 80 FF and its CRC.
C18_Witness ==
    /\ agent.pc = "handled"
    /\ Len(agent.sent) = 5
    /\ SubSeq(agent.sent, 1, 3) = <<1, 128, 255>>

(***************************************************************************)
(* Claims on the dispatch loop.                                            *)
(***************************************************************************)

IsAdu(k) == published[k].topic[3] = "mbnet"
IsTimedOutResponse(k) ==
    published[k].topic[3] = "response" /\ published[k].hasTimedOut

\* No ADU of a request is published after its timed-out response.
NoAduAfterTimeout ==
    \A i, j \in 1..Len(published) :
        ( /\ IsTimedOutResponse(i)
          /\ IsAdu(j)
          /\ published[j].uid = published[i].uid ) => j < i

\* The step in which the wait on an ADU of the head request ends with
\* nothing collected: the only publications for the head request that a
\* step from such a state can make are those of the dispatch task.
TimeoutStep ==
    /\ dispatch.pc = "awaiting"
    /\ ~checkLength(peek(items), dispatch.originalLength)
    /\ Len(published') > Len(published)
    /\ published'[Len(published) + 1].uid = peek(items).uid

C27_BoundedResponses ==
    \A i \in 1..Len(items) :
        Len(items[i].bufferResponses) <= Len(items[i].bufferRequests)

\* C28: the processing flag is true exactly while a triggerQueue task runs,
\* the queue is empty whenever the flag is false, and no request is queued
\* without a running task.
C28_FlagTracksLoop ==
    /\ processing <=> dispatch.pc = "awaiting"
    /\ ~processing => isEmpty(items)
    /\ ~isEmpty(items) => dispatch.pc = "awaiting"

\* C29: the handler of an mbnet message never ends with an uncaught
\* exception, in particular not when the message arrives with the queue
\* empty.
C29_LateReplyDiscarded == "mbnet" \notin uncaught

(***************************************************************************)
(* The traffic specification: more requests than the queue holds, for two  *)
(* devices that answer the ADUs they hold or refuse them.  The polls of    *)
(* awaitForResponse are timers: a wait that can end does end.              *)
(***************************************************************************)

\* The requests: the read of a list in two ADUs for the first device, the
\* write in one ADU for the second.
TrafficInputs ==
    { <<"d1", ObjectBody(ReadList)>>, <<"d2", ObjectBody(WriteList)>> }

\* A request message arrives, at most one more than the queue holds.
RequestArrives(device, body) ==
    /\ Len(requests) < MaxSize + 1
    /\ RequestBranch(device, body)

NextTraffic ==
    \/ \E input \in TrafficInputs : RequestArrives(input[1], input[2])
    \/ \E device \in Devices, kind \in {"ok", "exception"} : MbnetMessage(device, kind)
    \/ ResponseSeen
    \/ TimedOut

SpecTraffic ==
    Init /\ [][NextTraffic]_vars /\ WF_vars(ResponseSeen \/ TimedOut)

(***************************************************************************)
(* Claims on the traffic.                                                  *)
(***************************************************************************)

\* The step of a request message that validates, taken with the queue full.
RefusedStep ==
    /\ Len(items) >= MaxSize
    /\ Len(requests') = Len(requests) + 1
    /\ requests'[Len(requests')].isValid

\* The requests that validated and were refused by the full queue.
Refused == { u \in 1..Len(requests) : requests[u].isValid /\ ~Queued(u)
                                       /\ Responses(u) = {} /\ Adus(u) = {}
                                       /\ ~requests[u].enqueued }

\* C21: the queue never holds more than maxSize requests, the one in
\* flight included; an enqueue on a full queue leaves the queue, the flag,
\* the dispatch task and the publications as they were, and nothing is ever
\* published for the refused request, to the field or to the client.
C21_AdmissionCap ==
    /\ [](Len(items) <= MaxSize)
    /\ [][RefusedStep => UNCHANGED <<items, processing, dispatch, published, atField>>]_vars
    /\ [][\A u \in Refused : u \in Refused']_vars

\* A third request validated while the queue held two: it was refused.
C21_Witness ==
    /\ Len(items) = MaxSize
    /\ Refused # {}

(***************************************************************************)
(* The mbnet specification: requests for two devices that answer or        *)
(* refuse, and a user client that publishes on the mbnet topics itself     *)
(* (authorizePublish admits every publication).                            *)
(***************************************************************************)

\* Messages the user client publishes on an mbnet topic while one request
\* is at the head of the queue.
MaxStray == 1

\* What the user client publishes: an ADU behind the tag 00 of the broker,
\* and the frame of a reply behind the tag 01 of the field agent.
UserMessages == { <<0, 1, 3, 0, 0, 0, 1>>, <<1, 1, 3, 2, 0, 10>> }

\* The responses of a request that the user client published.
StrayCount(item) ==
    Cardinality({ k \in 1..Len(item.bufferResponses) :
                    item.bufferResponses[k].device = Client })

\* The user client publishes on the mbnet topic of a device; what the
\* field agent does with the message is left out.
UserPublishes(device, message) ==
    /\ ~isEmpty(items) => StrayCount(peek(items)) < MaxStray
    /\ MbnetBranch(message, Client, <<0, Head(message)>>)
    /\ UNCHANGED atField

NextMbnet ==
    \/ \E input \in TrafficInputs : RequestMessage(input[1], input[2])
    \/ \E device \in Devices, kind \in {"ok", "exception"} : MbnetMessage(device, kind)
    \/ \E device \in Devices, message \in UserMessages : UserPublishes(device, message)
    \/ ResponseSeen
    \/ TimedOut

SpecMbnet == Init /\ [][NextMbnet]_vars

(***************************************************************************)
(* Claims on the mbnet messages.                                           *)
(***************************************************************************)

\* C22: whatever the field replies, the dispatch loop goes on: the queue
\* does not stay non-empty with the processing flag set for ever.
C22_NoStall == []<>(isEmpty(items) \/ ~processing)

\* The tag of a collected response: the field agent tags 01, the user
\* client as recorded.
TagOf(entry) == IF entry.device \in Devices THEN 1 ELSE entry.src[2]

\* C30: every response a request has collected was published by a device
\* behind the tag 01.
C30_FieldTagOnly ==
    \A i \in 1..Len(items) : \A k \in 1..Len(items[i].bufferResponses) :
        /\ items[i].bufferResponses[k].device \in Devices
        /\ TagOf(items[i].bufferResponses[k]) = 1

(***************************************************************************)
(* The decoding specification: processClientResponse applied to a Client   *)
(* Request that collected one response for each of its ADUs.               *)
(***************************************************************************)

\* The requests: a read of two registers in one ADU, the read of a list of
\* inputs in two ADUs, a write of two registers, the diagnostics request,
\* and a raw request that reads one register.
WriteRange == [id |-> 1, fn |-> "u", dt |-> "no", rg |-> <<0, 1>>, dv |-> <<5, 6>>]
RawRead == [id |-> 1, fn |-> "m", pk |-> <<3, 0, 0, 0, 1>>]
ClearCounters == [id |-> 22, fn |-> "d", sf |-> "clct"]
DecodedPayloads ==
    {ReadRange, ReadList, WriteRange, DiagnosisExample, ClearCounters, RawRead}

\* The reply of a device that executes the ADU: the echo of the first six
\* bytes for a write, the frame built from its memory otherwise.
HonestReply(adu) ==
    IF adu[2] \in {15, 16} THEN SubSeq(adu, 1, 6) ELSE FieldFrame({}, 0, adu)

\* A reply and what may arrive in its place: one byte altered, the frame
\* cut short, one byte more, or the "Null" of the field agent.
Variants(frame) ==
    {frame}
    \cup { [frame EXCEPT ![k] = (@ + 1) % 128] : k \in 1..Len(frame) }
    \cup { SubSeq(frame, 1, k) : k \in 1..(Len(frame) - 1) }
    \cup { frame \o <<0>>, nullBuffer }

\* The Client Request of a payload, as the request branch constructs it.
DecodedRequest(payload) ==
    ClientRequest(payload, validator_validate(payload).format, Client, "d1", 1)

\* The ways to collect one response for each ADU of a request.
Collections(item) ==
    { c \in [1..Len(item.bufferRequests) ->
                UNION { Variants(HonestReply(item.bufferRequests[i])) :
                          i \in 1..Len(item.bufferRequests) }] :
        \A i \in 1..Len(c) : c[i] \in Variants(HonestReply(item.bufferRequests[i])) }

InitDecoding ==
    /\ GatewayInit
    /\ request = ExampleWrite
    /\ parsedRequests = <<>>
    /\ encPc = "off"
    /\ exchange = AtRest
    /\ candidate = AtRest
    /\ agent = AtRest
    /\ broker = AtRest
    /\ \E payload \in DecodedPayloads :
         /\ validator_validate(payload).isValid
         /\ \E c \in Collections(DecodedRequest(payload)) :
              decoding = [pc |-> "collected",
                          item |-> [DecodedRequest(payload) EXCEPT
                              !.bufferResponses =
                                  [i \in 1..Len(c) |->
                                      [bytes |-> c[i], device |-> "d1",
                                       src |-> <<1, i>>]]]]

\* item.processClientResponse(false), as triggerQueue calls it when every
\* wait resolved.
Decode ==
    /\ decoding.pc = "collected"
    /\ decoding' =
          IF processClientResponse_throws(decoding.item, FALSE)
          THEN [decoding EXCEPT !.pc = "threw"]
          ELSE [pc |-> "decoded",
                item |-> processClientResponse(decoding.item, FALSE)]
    /\ UNCHANGED <<encVars, gwVars, exchange, candidate, agent, broker>>

NextDecoding == Decode

SpecDecoding == InitDecoding /\ [][NextDecoding]_vars

(***************************************************************************)
(* Claims on the decoding.                                                 *)
(***************************************************************************)

Decoded == decoding.pc = "decoded"
Answer == decoding.item.responseObject
Family == decoding.item.content[mb.FUNCTION_PROPERTY]
Frame(i) == decoding.item.bufferRequests[i]
Collected(i) == decoding.item.bufferResponses[i].bytes
FrameIndices == 1..Len(decoding.item.bufferRequests)

\* The data bytes a read reply needs for the count of its ADU (bytes 4 and
\* 5 of the frame): two per register, one per eight coils or inputs.
NeededBytes(i) ==
    LET count == readUInt16BE(Frame(i), 4)
    IN  IF Frame(i)[2] \in {3, 4} THEN 2 * count ELSE CeilDiv8(count)

\* Reply i to a read carries fewer data bytes than its ADU asked for.
ShortData(i) == Len(slice(Collected(i), 3)) < NeededBytes(i)

\* C24: a read of which some reply carries fewer data bytes than requested
\* is answered with status false, and no answer with status true holds a
\* null or undefined entry in its fetched data.
C24_ParseErrorFails ==
    Decoded =>
        /\ (Family = mb.READ /\ \E i \in FrameIndices : ShortData(i))
              => Field(Answer, mb.STATUS) = FALSE
        /\ (Field(Answer, mb.STATUS) = TRUE /\ HasField(Answer, mb.FETCHED_DATA))
              => \A k \in 1..Len(Field(Answer, mb.FETCHED_DATA)) :
                    Field(Answer, mb.FETCHED_DATA)[k] \notin {nullEntry, undefined}

\* Reply i differs from its frame in the unit id or the function code.
HeaderMismatch(i) ==
    \/ elementAt(Collected(i), 1) # Frame(i)[1]
    \/ elementAt(Collected(i), 2) # Frame(i)[2]

\* C25: a reply whose unit id or function code differs from its frame's
\* gives the answer of a field-side failure: status false and the message
\* "Error Retrieving Data".
C25_MismatchLikeFailure ==
    (Decoded /\ \E i \in FrameIndices : HeaderMismatch(i)) =>
        /\ Field(Answer, mb.STATUS) = FALSE
        /\ HasField(Answer, mb.MESSAGE)
        /\ Field(Answer, mb.MESSAGE) = "Error Retrieving Data"

\* The bytes header validation is said to compare: unit id and function
\* code, and for a write or diagnostics the two bytes after them.
ComparedBytes ==
    IF Family \in {mb.WRITE, mb.DIAGNOSIS} THEN 1..4 ELSE 1..2

\* C26: when no reply is the "Null" of the field agent, the answer has
\* status false exactly when some reply differs from its frame in one of
\* the compared bytes.
C26_ComparedPositions ==
    (Decoded /\ ~someNullBuffer(decoding.item.bufferResponses)) =>
        ( Field(Answer, mb.STATUS) = FALSE
          <=> \E i \in FrameIndices : \E j \in ComparedBytes :
                  elementAt(Collected(i), j) # Frame(i)[j] )

(***************************************************************************)
(* Claims on the construction of a Client Request.                         *)
(***************************************************************************)

\* The frames of the constructed Client Request, as the encoder gave them.
EncodedFrames == candidate.clientRequest.parsedRequests

\* C31: every request accepted by the validator can be compiled: the
\* construction of its Client Request never throws, and every frame of a
\* constructed read, write or diagnosis has a defined function code.
C31_AcceptedCompiles ==
    /\ candidate.pc # "threw"
    /\ candidate.pc = "constructed" =>
          \A i \in 1..Len(EncodedFrames) :
              candidate.clientRequest.content[mb.FUNCTION_PROPERTY] # mb.MODBUS
                  => EncodedFrames[i][2] # undefined

(***************************************************************************)
(* Claims on the decoding of diagnostics.                                  *)
(***************************************************************************)

\* The request is a diagnosis whose subfunction fetches no data, and its
\* reply echoes the unit id, the function code 0x08 and the subfunction
\* code of its frame.
EchoedPlainDiagnosis ==
    /\ decoding.pc \in {"decoded", "threw"}
    /\ Family = mb.DIAGNOSIS
    /\ ~dataFetcherSubfunctionMap(decoding.item.content[mb.SUBFUNCTION_PROPERTY])
    /\ Len(Collected(1)) >= 4
    /\ SubSeq(Collected(1), 1, 4) = SubSeq(Frame(1), 1, 4)
    /\ Frame(1)[2] = 8

\* C32: a diagnosis request whose subfunction is not data-fetching and whose
\* reply echoes the same unit id, function code 0x08 and subfunction code
\* yields a response with status true and no fetched data.
C32_PlainDiagnosis ==
    EchoedPlainDiagnosis =>
        /\ Decoded
        /\ Field(Answer, mb.STATUS) = TRUE
        /\ ~HasField(Answer, mb.FETCHED_DATA)

(***************************************************************************)
(* Claims on the tags and the lengths of the field agent.                  *)
(***************************************************************************)

\* C33: for every message delivered to the field agent, if its first byte
\* is the tag 0x01 the agent transmits nothing on the UART and publishes
\* nothing; otherwise it performs one exchange on the UART and publishes
\* one message whose first byte is 0x01.
C33_TagDecides ==
    agent.pc \notin {"off", "received"} =>
        IF agent.data[1] = 1
        THEN /\ agent.pc = "ignored"
             /\ agent.sent = <<>>
             /\ agent.published = <<>>
        ELSE /\ agent.pc = "handled"
             /\ agent.sent = TransmittedFrame(agent.data)
             /\ agent.published # <<>>
             /\ agent.published[1] = 1

(***************************************************************************)
(* The coil-write specification: a write of 1 to MaxCoils coils validated  *)
(* and built into a Client Request.                                        *)
(***************************************************************************)

MaxCoils == 9

\* Writes of n coils at the addresses 0..n-1, each value 0 or 1, or each
\* value 0 or 2.
CoilWrites ==
    UNION { { [id |-> 1, fn |-> "u", dt |-> "bo",
               ls |-> [k \in 1..n |-> k - 1], dv |-> v] :
                v \in [1..n -> {0, 1}] \cup [1..n -> {0, 2}] } :
            n \in 1..MaxCoils }

InitCoils ==
    /\ GatewayInit
    /\ request = ExampleWrite
    /\ parsedRequests = <<>>
    /\ encPc = "off"
    /\ exchange = AtRest
    /\ agent = AtRest
    /\ decoding = AtRest
    /\ broker = AtRest
    /\ \E data \in CoilWrites :
        candidate = [pc |-> "payload", data |-> data, result |-> <<>>,
                     clientRequest |-> null, projected |-> <<>>]

NextCoils ==
    \/ Validate
    \/ Construct

SpecCoils == InitCoils /\ [][NextCoils]_vars

(***************************************************************************)
(* Claims on the coil writes.                                              *)
(***************************************************************************)

\* Bit k (0 the lowest) of a byte.
BitOf(byte, k) == (byte \div (2 ^ k)) % 2

\* The coil write frame: the ADU of the constructed request, its count n
\* and its n values.
CoilAdu == candidate.clientRequest.bufferRequests[1]
CoilValues == candidate.data.dv
CoilBuilt ==
    /\ candidate.pc = "constructed"
    /\ candidate.clientRequest.content[mb.DATATYPE_PROPERTY] = mb.BOOLEAN_OUTPUT
    /\ Len(candidate.clientRequest.bufferRequests) = 1
    /\ CoilAdu[2] = 15

\* C34: the ADU of a coil write (0x0F) with n values has 7 + ceil(n/8)
\* bytes, its byte count is ceil(n/8), value i (non-zero = 1) is bit i mod 8
\* of data byte floor(i/8), and the unused high bits of the last byte are 0.
C34_CoilPacking ==
    CoilBuilt =>
        LET n == Len(CoilValues)
            bytes == (n + 7) \div 8
        IN  /\ Len(CoilAdu) = 7 + bytes
            /\ CoilAdu[7] = bytes
            /\ readUInt16BE(CoilAdu, 4) = n
            /\ \A j \in 0..(bytes - 1) : CoilAdu[8 + j] \in 0..255
            /\ \A i \in 0..(8 * bytes - 1) :
                  BitOf(CoilAdu[8 + (i \div 8)], i % 8)
                      = IF i < n /\ CoilValues[i + 1] # 0 THEN 1 ELSE 0

\* A write of 9 coils, the last one set by a value of 2, was built: byte
\* count 2 and bit 0 of the second data byte.
C34_Witness ==
    /\ CoilBuilt
    /\ Len(CoilValues) = 9
    /\ CoilValues[9] = 2
    /\ CoilAdu[7] = 2
    /\ CoilAdu[9] = 1

(***************************************************************************)
(* The UART specification (uartmanager.c, modbusserial.c): the UART is     *)
(* configured and the inter-symbol timeout computed from the               *)
(* configuration.  A configuration gives the baud rate, the data bits, the *)
(* parity and twice the stop bits (2, 3 or 4 for 1, 1.5 or 2 stop bits).   *)
(***************************************************************************)

BAUDRATE == 115200

BaudRates == {300, 1200, 2400, 4800, 9600, 19200, 38400, 57600, BAUDRATE}

UartConfigurations ==
    [ baud_rate : BaudRates, data_bits : 5..8,
      parity : {"disable", "even", "odd"}, stop_half_bits : {2, 3, 4} ]

\* The configuration uart_initialize builds.
uart_configure ==
    [ baud_rate |-> BAUDRATE, data_bits |-> 8, parity |-> "disable",
      stop_half_bits |-> 2 ]

\* modbus_calculateIntersymbolTimeout(config): 8 data bits and 1 stop bit
\* whatever the configuration says, the quotient truncated by the conversion
\* to uint16_t, and 1 in place of 0.
modbus_calculateIntersymbolTimeout(config) ==
    LET data_bits == 8
        parity_bits == IF config.parity # "disable" THEN 1 ELSE 0
        stop_bits == 1
        timeout_ms ==
            ((1500 * (data_bits + parity_bits + stop_bits)) \div config.baud_rate)
                % 65536
    IN  IF timeout_ms = 0 THEN 1 ELSE timeout_ms

InitUart ==
    /\ GatewayInit
    /\ request = ExampleWrite
    /\ parsedRequests = <<>>
    /\ encPc = "off"
    /\ exchange = AtRest
    /\ candidate = AtRest
    /\ decoding = AtRest
    /\ broker = AtRest
    /\ \E config \in UartConfigurations :
        agent = [pc |-> "configured", config |-> config,
                 interSymbolTimeout_ms |-> 1]

\* uart_initialize, from the computation of the timeout on.
uart_initialize ==
    /\ agent.pc = "configured"
    /\ agent' = [agent EXCEPT
            !.pc = "initialized",
            !.interSymbolTimeout_ms =
                modbus_calculateIntersymbolTimeout(agent.config)]
    /\ UNCHANGED <<encVars, gwVars, exchange, candidate, decoding, broker>>

NextUart == uart_initialize

SpecUart == InitUart /\ [][NextUart]_vars

(***************************************************************************)
(* Claims on the UART.                                                     *)
(***************************************************************************)

\* Twice the bits of one symbol of the configuration, without the start
\* bit: data, parity and stop bits.
SymbolHalfBits(config) ==
    2 * config.data_bits + (IF config.parity # "disable" THEN 2 ELSE 0)
        + config.stop_half_bits

\* ceil(1500 * (data + parity + stop) / baud)
CeilTimeout(config) ==
    (1500 * SymbolHalfBits(config) + 2 * config.baud_rate - 1)
        \div (2 * config.baud_rate)

ResponseSize == 265
MaxDataLen == 259

\* The length of a message that carries a 6-byte ADU behind its tag.
ReadMessageLen == 7

\* The runs followed: a message of every length whose exchange reads
\* nothing, and the message of a 6-byte ADU with every number of bytes
\* modbus_readResponsePacket can return.
HandlerRuns ==
    { <<d, 0>> : d \in 1..MaxDataLen }
    \cup { <<ReadMessageLen, n>> : n \in 0..ResponseSize }

InitLoops ==
    /\ GatewayInit
    /\ request = ExampleWrite
    /\ parsedRequests = <<>>
    /\ encPc = "off"
    /\ exchange = AtRest
    /\ candidate = AtRest
    /\ decoding = AtRest
    /\ broker = AtRest
    /\ \E run \in HandlerRuns :
        agent = [pc |-> "encodeCRC", data_len |-> run[1], read |-> run[2],
                 payloadLen |-> (run[1] + 1) % 65536, responseLen |-> 0,
                 byte |-> 0, copyLength |-> 0, publishedLength |-> 0]

\* One test of a for loop whose counter is 8 bits wide: the counter moves
\* on while it is below length, the handler goes to after when it is not.
LoopTest(length, after) ==
    /\ agent' = IF agent.byte < length
                THEN [agent EXCEPT !.byte = (@ + 1) % 256]
                ELSE [agent EXCEPT !.pc = after, !.byte = 0]
    /\ UNCHANGED <<encVars, gwVars, exchange, candidate, decoding, broker>>

\* modbus_evaluateCRC(payload, payloadLen - 2)
EncodeCrcLoop ==
    /\ agent.pc = "encodeCRC"
    /\ LoopTest((agent.payloadLen - 2) % 65536, "payloadLoop")

\* for (unsigned char k = 0; k < payloadLen; k++)
PayloadLoop ==
    /\ agent.pc = "payloadLoop"
    /\ LoopTest(agent.payloadLen, "exchange")

\* modbus_sendRequestPacket, modbus_readResponsePacket
ReadResponse ==
    /\ agent.pc = "exchange"
    /\ agent' = [agent EXCEPT !.responseLen = agent.read,
                              !.pc = IF agent.read > 0 THEN "checkCRC"
                                                       ELSE "publish"]
    /\ UNCHANGED <<encVars, gwVars, exchange, candidate, decoding, broker>>

\* modbus_evaluateCRC(response, responseLen)
CheckCrcLoop ==
    /\ agent.pc = "checkCRC"
    /\ LoopTest(agent.responseLen, "publish")

\* The "Null" of an empty read, the memcpy into taggedResponse and the
\* publication.  copyLength is the int that responseLen - 2 gives; memcpy
\* takes it as a size_t, a negative one as 2^32 + copyLength: that copy
\* overruns both buffers, and the handler crashes or goes on.  The
\* published length is a uint16_t.
PublishResponse ==
    /\ agent.pc = "publish"
    /\ LET len == IF agent.responseLen < 1 THEN 6 ELSE agent.responseLen
           copy == len - 2
       IN  \E outcome \in IF copy < 0 THEN {"crashed", "responseLoop"}
                                                  ELSE {"responseLoop"} :
              agent' = [agent EXCEPT !.pc = outcome,
                                     !.responseLen = len,
                                     !.copyLength = copy,
                                     !.publishedLength = (len - 1) % 65536]
    /\ UNCHANGED <<encVars, gwVars, exchange, candidate, decoding, broker>>

\* for (uint8_t k = 0; k < responseLen; k++)
ResponseLoop ==
    /\ agent.pc = "responseLoop"
    /\ LoopTest(agent.responseLen, "done")

NextLoops ==
    \/ EncodeCrcLoop
    \/ PayloadLoop
    \/ ReadResponse
    \/ CheckCrcLoop
    \/ PublishResponse
    \/ ResponseLoop

SpecLoops == InitLoops /\ [][NextLoops]_vars /\ WF_vars(NextLoops)

(***************************************************************************)
(* Claims on the lengths and loops of the handler.                         *)
(***************************************************************************)

\* The handler has published its message.
Published == agent.pc \in {"responseLoop", "done", "crashed"}

\* C36: for every number of bytes 0..265 returned by
\* modbus_readResponsePacket the copy length into the tagged buffer is
\* between 0 and 263 and the published length is at least 1.
C36_LengthsInRange ==
    Published =>
        /\ agent.copyLength \in 0..263
        /\ agent.publishedLength >= 1

\* C37: modbus_evaluateCRC and the byte loops of gatewayHandler terminate
\* for every reply length 0..265 and every transmit frame, lengths of 256
\* bytes and more included: the handler always comes to its end.
C37_LoopsTerminate == <>(agent.pc \in {"done", "crashed"})

(***************************************************************************)
(* The login specification (MQTTBroker in clientRequest.js): MQTT clients  *)
(* authenticate with a user or device identifier and disconnect.  A        *)
(* logged-in list is a function from client ids to entries <<identifier,   *)
(* devices>>.                                                              *)
(***************************************************************************)

ClientIds == {"m1", "m2", "m3"}
Identifiers == {"ana.org", "bob.org", "t1@org"}

\* identifier.includes(".")
IsUser(identifier) == identifier \in {"ana.org", "bob.org"}

\* delete obj[key]
Delete(obj, key) == [k \in DOMAIN obj \ {key} |-> obj[k]]

\* MQTTBroker.getIds(loggedObject): the identifiers of the entries.
getIds(loggedObject) == { loggedObject[key][1] : key \in DOMAIN loggedObject }

\* What dbAccess.authenticateUser or authenticateDevice resolves to.
AuthenticatorResult(identifier, success) ==
    [ success |-> success, identifier |-> identifier,
      devices |-> IF IsUser(identifier) THEN {"d1"} ELSE {} ]

InitLogin ==
    /\ GatewayInit
    /\ request = ExampleWrite
    /\ parsedRequests = <<>>
    /\ encPc = "off"
    /\ exchange = AtRest
    /\ candidate = AtRest
    /\ agent = AtRest
    /\ decoding = AtRest
    /\ broker = [ pc |-> "up", loggedInUsers |-> <<>>, loggedInDevices |-> <<>>,
                  lastActivity |-> {},
                  attempts |-> [c \in ClientIds |-> [pc |-> "closed", identifier |-> ""]] ]

\* MQTTBroker.authenticate up to its await: a client that connects gives an
\* identifier; it is refused when the identifier is in the logged-in list
\* of its kind, and waits for the authenticator otherwise.
authenticate(client, identifier) ==
    /\ broker.pc = "up"
    /\ broker.attempts[client].pc = "closed"
    /\ LET loggedInList == IF IsUser(identifier) THEN broker.loggedInUsers
                                                  ELSE broker.loggedInDevices
       IN  broker' = IF identifier \in getIds(loggedInList)
                     THEN broker
                     ELSE [broker EXCEPT !.attempts[client] =
                              [pc |-> "awaiting", identifier |-> identifier]]
    /\ UNCHANGED <<encVars, gwVars, exchange, candidate, agent, decoding>>

\* MQTTBroker.authenticate from its await on: the authenticator resolved.
\* On success the entry is recorded under the client id.
authenticate_resumes(client, success) ==
    /\ broker.pc = "up"
    /\ broker.attempts[client].pc = "awaiting"
    /\ LET identifier == broker.attempts[client].identifier
           result == AuthenticatorResult(identifier, success)
           entry == << result.identifier, result.devices >>
       IN  broker' =
             IF ~result.success
             THEN [broker EXCEPT !.attempts[client] =
                      [pc |-> "closed", identifier |-> ""]]
             ELSE IF IsUser(identifier)
             THEN [broker EXCEPT
                      !.loggedInUsers = Put(@, client, entry),
                      !.lastActivity = @ \cup {client},
                      !.attempts[client].pc = "connected"]
             ELSE [broker EXCEPT
                      !.loggedInDevices = Put(@, client, entry),
                      !.lastActivity = @ \cup {client},
                      !.attempts[client].pc = "connected"]
    /\ UNCHANGED <<encVars, gwVars, exchange, candidate, agent, decoding>>

\* MQTTBroker.onClientDisconnect
onClientDisconnect(client) ==
    /\ broker.pc = "up"
    /\ broker.attempts[client].pc = "connected"
    /\ broker' = [broker EXCEPT
            !.loggedInUsers = Delete(@, client),
            !.loggedInDevices = Delete(@, client),
            !.attempts[client] = [pc |-> "closed", identifier |-> ""]]
    /\ UNCHANGED <<encVars, gwVars, exchange, candidate, agent, decoding>>

NextLogin ==
    \/ \E client \in ClientIds, identifier \in Identifiers :
            authenticate(client, identifier)
    \/ \E client \in ClientIds, success \in BOOLEAN :
            authenticate_resumes(client, success)
    \/ \E client \in ClientIds : onClientDisconnect(client)

SpecLogin == InitLogin /\ [][NextLogin]_vars

(***************************************************************************)
(* Claims on the login.                                                    *)
(***************************************************************************)

\* No two client ids of a logged-in list hold the same identifier.
OneClientEach(loggedObject) ==
    \A c1, c2 \in DOMAIN loggedObject :
        loggedObject[c1][1] = loggedObject[c2][1] => c1 = c2

\* C38: at every moment each user or device identifier is logged in under
\* at most one MQTT client id, also when two authentication attempts for
\* the same identifier interleave around the credential check.
C38_OneSession ==
    broker.pc = "up" =>
        /\ OneClientEach(broker.loggedInUsers)
        /\ OneClientEach(broker.loggedInDevices)

====
